---------------------------- MODULE Spec2Model ----------------------------
(***************************************************************************)
(* A model of AirShare: the signaling server (src/src/server/socket.js),   *)
(* its rate limiter, and the chunked data-channel transfer                 *)
(* (src/src/public/js/webrtc/sender.js, receiver.js, connection.js).       *)
(*                                                                         *)
(* The variables fall in groups, one per specification:                    *)
(*   Spec       the signaling server: registry, Socket.IO rooms, pending   *)
(*              joins and the events each handler emits;                   *)
(*   SpecRooms  the room handlers with two room ids and one socket less;   *)
(*   SpecRate   checkRateLimit against a millisecond clock;                *)
(*   SpecXfer   one file sent byte by byte over the data channel of a      *)
(*              connected sender, from the channel's onopen on;            *)
(*   SpecXferFair  the same with the scheduling of the event loop and of   *)
(*              the transport stated as fairness;                          *)
(*   SpecNoisy  the transfer over a channel that damages chunk frames;     *)
(*   SpecSignal the client's handleSignal (webrtc/signaling.js): remote    *)
(*              description and the queue of remote ICE candidates;        *)
(*   SpecRestart, SpecRestartFair  one client page (app.js and             *)
(*              webrtc/connection.js): the peer connection and its         *)
(*              lifecycle, its timeouts, the restart after a peer has      *)
(*              left, the reconnect of the signaling socket, the page's    *)
(*              unload, and the send loop of sender.js across them.        *)
(*   SpecResetup  SpecSignal with the application setting the connection   *)
(*              up again while candidates arrive;                          *)
(*   SpecOffer  the sender's page of app.js: the join requests it is       *)
(*              shown, the peers it accepts, and the offers its            *)
(*              peer-joined handler schedules;                             *)
(*   SpecAdapt  the batch size and the yield time of continueSendFile      *)
(*              under every sequence of bufferedAmount observations.       *)
(* A specification leaves the variables it does not use at their initial   *)
(* values.                                                                 *)
(***************************************************************************)
EXTENDS Integers, Sequences, FiniteSets, TLC

VARIABLES
    \* ---- signaling server -------------------------------------------
    sockState,            \* socket id -> "new" | "connected" | "closed"
    roomRegistry,         \* roomId -> [age, peers]         (a partial map)
    socketRooms,          \* socket id -> the Socket.IO rooms it has joined
    pendingJoinRequests,  \* socket id -> roomId            (a partial map)
    emitted,              \* the events the last handler emitted
    socketRateLimits,     \* the socket ids that have an entry in the map
    \* ---- rate limiter against a clock --------------------------------
    rlNow,                \* Date.now(), ms
    rlSteps,              \* how often the clock has advanced
    rlLimit,              \* socketRateLimits.get(id): [has, count, resetTime]
    rlAccepted,           \* accept time -> events accepted then, last 1 s
    rlLast,               \* the last event: "none" | "accepted" | "rejected" | "exempt"
    \* ---- file transfer over the data channel -------------------------
    config,               \* manager.config, and which sender runs
    file,                 \* the sender's file: a sequence of bytes
    sendState,            \* manager.sendState
    loop,                 \* continueSendFile, the call made last: where it
                          \* stands, its locals
    others,               \* the calls made before it that are still suspended
    channel,              \* frames sent and not yet drained, oldest first
    lowEvents,            \* bufferedamountlow events fired, not yet handled
    receiveState,         \* manager.receiveState of the receiver
    sink,                 \* the bytes written to the save-file stream
    delivered,            \* what the receiver handed to the user
    \* ---- the client's signaling (handleSignal) ------------------------
    peerConnection,       \* manager.peerConnection is set
    remoteDescription,    \* peerConnection.remoteDescription is set
    remoteCandidateQueue, \* manager.remoteCandidateQueue
    applied,              \* the candidates passed to addIceCandidate, in order
    described,            \* the offer/answer handler: where it stands
    arrived,              \* candidate events received so far
    queuedEver,           \* the candidates that were pushed on the queue
    \* ---- the client's peer connection and its lifecycle --------------
    isInitiator,          \* manager.isInitiator
    clientRoomId,         \* manager.roomId
    pendingFile,          \* manager.pendingFile
    lifecycle,            \* manager.lifecycle
    connectionState,      \* peerConnection.connectionState, "none" without one
    channelState,         \* dataChannel.readyState, "none" without one
    status,               \* the text last passed to ui.updateStatus
    timers,               \* the timeouts that are set and have not fired
    errorShown,           \* the text the client's last handler has passed to
                          \* ui.showError, "" if it has shown no error
    \* ---- the sender's page and the peers that join (app.js) ----------
    offerCreatedForRoom,  \* the room the offer guard is set for
    lastJoinedPeerId,     \* the peer of the last peer-joined that named a new one
    pendingAcceptedPeerId,\* the peer the user has accepted last
    promptPeerId,         \* the peer the connection prompt asks about
    offerTimers           \* the setTimeout(createOffer, 600) not yet fired

serverVars == <<sockState, roomRegistry, socketRooms, pendingJoinRequests,
                emitted, socketRateLimits>>
rateVars   == <<rlNow, rlSteps, rlLimit, rlAccepted, rlLast>>
xferVars   == <<config, file, sendState, loop, others, channel, lowEvents,
                receiveState, sink, delivered>>
signalVars == <<peerConnection, remoteDescription, remoteCandidateQueue,
                applied, described, arrived, queuedEver>>
restartVars == <<isInitiator, clientRoomId, pendingFile, lifecycle, connectionState,
                 channelState, status, timers, errorShown>>
peerVars   == <<signalVars, restartVars>>
appVars    == <<offerCreatedForRoom, lastJoinedPeerId, pendingAcceptedPeerId,
                promptPeerId, offerTimers>>
vars       == <<serverVars, rateVars, xferVars, peerVars, appVars>>

\* What the handlers of one part leave alone.
nonServerVars == <<rateVars, xferVars, peerVars, appVars>>
nonRateVars   == <<serverVars, xferVars, peerVars, appVars>>
nonXferVars   == <<serverVars, rateVars, peerVars, appVars>>
nonPeerVars   == <<serverVars, rateVars, xferVars, appVars>>
\* What a step of the send loop leaves alone outside the transfer: all but
\* lifecycle.transferComplete and the error shown.
nonLoopVars   == <<serverVars, rateVars, signalVars, isInitiator, clientRoomId,
                   pendingFile, connectionState, channelState, status, timers,
                   appVars>>

-----------------------------------------------------------------------------
(* Bounds of the model *)

NumSockets == 3
MaxClockSteps == 3
MaxFileSize == 12
MaxCandidates == 4

(* Program constants *)

MaxPeersPerRoom       == 2
RoomTtlMs             == 1800000
SweepIntervalMs       == 600000
MaxSignalPayloadBytes == 65536
RATE_LIMIT_WINDOW     == 1000
RATE_LIMIT_MAX        == 10

-----------------------------------------------------------------------------
(* The signaling server *)

Sockets        == 1..NumSockets
NoPeer         == 0
\* Event arguments: room ids that match ROOM_ID_REGEX and one that does not.
ValidRoomIds   == {"r1", "r2"}
RoomIdInputs   == {"r1", "bad id!"}
\* peerId arguments: socket ids, and NoPeer for a peerId that is not a string.
PeerIdInputs   == Sockets \cup {NoPeer}
NoRoom         == "-"
SignalEvents   == {"offer", "answer", "candidate"}
\* JSON.stringify(data).length of an incoming payload: at the limit, above it.
PayloadLens    == {MaxSignalPayloadBytes, MaxSignalPayloadBytes + 1}
\* The relayed envelope is {...data, from: socket.id}: serialized, it is the
\* payload plus ,"from":"<20-character socket id>".
FromFieldLen   == 30

isValidRoomId(roomId) == roomId \in ValidRoomIds

\* The membership test answering no for every socket.
inRoomNever(s, roomId) == FALSE

inRoom(s, roomId) == roomId \in socketRooms[s]

\* roomRegistry.has answering false for every room id.
HasRoomNever(roomId) == FALSE

HasRoom(roomId) == roomId \in DOMAIN roomRegistry

Peers(roomId) == IF HasRoom(roomId) THEN roomRegistry[roomId].peers ELSE {}

\* The sockets in Socket.IO room roomId: whom socket.to(roomId) and
\* io.to(roomId) reach, and the sockets for which inRoom holds.
Adapter(roomId) == {s \in Sockets : roomId \in socketRooms[s]}

PendingRoom(p) ==
    IF p \in DOMAIN pendingJoinRequests THEN pendingJoinRequests[p] ELSE NoRoom

Msg(to, ev, roomId, peerId, from, text, len) ==
    [to |-> to, ev |-> ev, roomId |-> roomId, peerId |-> peerId,
     from |-> from, text |-> text, len |-> len]

AppError(to, text) == Msg(to, "app-error", NoRoom, NoPeer, NoPeer, text, 0)

MapPut(f, k, v) == [x \in (DOMAIN f) \cup {k} |-> IF x = k THEN v ELSE f[x]]

MapDel(f, k) == [x \in (DOMAIN f) \ {k} |-> f[x]]


ServerInit ==
    /\ sockState = [s \in Sockets |-> "new"]
    /\ roomRegistry = << >>
    /\ socketRooms = [s \in Sockets |-> {}]
    /\ pendingJoinRequests = << >>
    /\ emitted = {}
    /\ socketRateLimits = {}

\* io.on("connection"): each connection gets a fresh socket id; the ids are
\* handed out in increasing order and never reused.
Connect(s) ==
    /\ sockState[s] = "new"
    /\ \A t \in Sockets : t < s => sockState[t] # "new"
    /\ sockState' = [sockState EXCEPT ![s] = "connected"]
    /\ emitted' = {}
    /\ UNCHANGED <<roomRegistry, socketRooms, pendingJoinRequests, socketRateLimits>>
    /\ UNCHANGED nonServerVars

\* What a call of checkRateLimit(socket.id) leaves in socketRateLimits: an
\* entry for the socket, whether the call answers true or false.  The entry's
\* count and resetTime are the subject of SpecRate.
LeavesRateEntry(s) == socketRateLimits' = socketRateLimits \cup {s}

\* An early return that emits nothing.
RejectSilently(s, text) ==
    /\ emitted' = {}
    /\ UNCHANGED <<roomRegistry, socketRooms, pendingJoinRequests>>

\* A handler's early return with one app-error to the caller.
Reject(s, text) ==
    /\ emitted' = {AppError(s, text)}
    /\ UNCHANGED <<roomRegistry, socketRooms, pendingJoinRequests>>

NotFound(s, roomId) ==
    /\ emitted' = {Msg(s, "room-not-found", roomId, NoPeer, NoPeer, "", 0)}
    /\ UNCHANGED <<roomRegistry, socketRooms, pendingJoinRequests>>

\* The capacity test with > where the code has >=.
RoomFullOffByOne(roomId) == Cardinality(roomRegistry[roomId].peers) > MaxPeersPerRoom

RoomFull(roomId) == Cardinality(roomRegistry[roomId].peers) >= MaxPeersPerRoom

\* In the handlers below ok is the result of checkRateLimit(socket.id).  It
\* depends on the socket's count and on the clock, which SpecRate models; a
\* handler of this specification is taken with either result.

CreateRoom(s, roomId, ok) ==
    /\ sockState[s] = "connected"
    /\ UNCHANGED sockState
    /\ LeavesRateEntry(s)
    /\ UNCHANGED nonServerVars
    /\ IF ~ok THEN Reject(s, "Too many requests")
       ELSE IF ~isValidRoomId(roomId) THEN Reject(s, "Invalid room ID")
       ELSE IF HasRoom(roomId) THEN Reject(s, "Room already exists")
       ELSE /\ roomRegistry' = MapPut(roomRegistry, roomId,
                                      [age |-> 0, peers |-> {s}])
            /\ socketRooms' = [socketRooms EXCEPT ![s] = @ \cup {roomId}]
            /\ emitted' = {Msg(s, "room-created", roomId, NoPeer, NoPeer, "", 0)}
            /\ UNCHANGED pendingJoinRequests

JoinRoom(s, roomId, ok) ==
    /\ sockState[s] = "connected"
    /\ UNCHANGED sockState
    /\ LeavesRateEntry(s)
    /\ UNCHANGED nonServerVars
    /\ IF ~ok THEN Reject(s, "Too many requests")
       ELSE IF ~isValidRoomId(roomId) THEN Reject(s, "Invalid room ID")
       ELSE IF ~HasRoom(roomId) THEN NotFound(s, roomId)
       ELSE IF RoomFull(roomId) THEN Reject(s, "Room is full")
       ELSE /\ roomRegistry' = [roomRegistry EXCEPT ![roomId].peers = @ \cup {s}]
            /\ socketRooms' = [socketRooms EXCEPT ![s] = @ \cup {roomId}]
            \* socket.to(roomId): every socket of the Socket.IO room but s
            /\ emitted' =
                 {Msg(t, "peer-joined", roomId, s, NoPeer, "", 0) :
                      t \in Adapter(roomId) \ {s}}
                 \cup {Msg(s, "room-joined", roomId, NoPeer, NoPeer, "", 0)}
            /\ UNCHANGED pendingJoinRequests

RequestJoin(s, roomId, ok) ==
    /\ sockState[s] = "connected"
    /\ UNCHANGED sockState
    /\ LeavesRateEntry(s)
    /\ UNCHANGED nonServerVars
    /\ IF ~ok THEN Reject(s, "Too many requests")
       ELSE IF ~isValidRoomId(roomId) THEN Reject(s, "Invalid room ID")
       ELSE IF ~HasRoom(roomId) THEN NotFound(s, roomId)
       ELSE IF inRoom(s, roomId)
            THEN /\ emitted' = {Msg(s, "room-joined", roomId, NoPeer, NoPeer, "", 0)}
                 /\ UNCHANGED <<roomRegistry, socketRooms, pendingJoinRequests>>
       ELSE /\ pendingJoinRequests' = MapPut(pendingJoinRequests, s, roomId)
            /\ emitted' =
                 {Msg(t, "peer-join-request", roomId, s, NoPeer, "", 0) :
                      t \in Adapter(roomId) \ {s}}
                 \cup {Msg(s, "join-requested", roomId, NoPeer, NoPeer, "", 0)}
            /\ UNCHANGED <<roomRegistry, socketRooms>>

\* The no-pending-request error sent to the named peer as well.
NoPendingRecipientsBoth(s, peerId) == {s, peerId}

\* Whom peer-accepted tells that peerId has no pending join for the room.
NoPendingRecipients(s, peerId) == {s}

\* Whom peer-accepted tells that the room is full.
RoomFullRecipients(s, peerId) == {peerId, s}

PeerAccepted(s, roomId, peerId, ok) ==
    /\ sockState[s] = "connected"
    /\ UNCHANGED sockState
    /\ LeavesRateEntry(s)
    /\ UNCHANGED nonServerVars
    /\ IF ~ok THEN Reject(s, "Too many requests")
       ELSE IF ~isValidRoomId(roomId) \/ peerId = NoPeer
            THEN Reject(s, "Invalid accept payload")
       ELSE IF ~inRoom(s, roomId) THEN Reject(s, "Not a member of this room")
       ELSE IF ~HasRoom(roomId) THEN NotFound(s, roomId)
       ELSE IF PendingRoom(peerId) # roomId
            THEN /\ emitted' = {AppError(t, "No pending request for this peer") :
                                    t \in NoPendingRecipients(s, peerId)}
                 /\ UNCHANGED <<roomRegistry, socketRooms, pendingJoinRequests>>
       ELSE IF sockState[peerId] # "connected"
            THEN \* io.sockets.sockets.get(peerId) is undefined
                 /\ pendingJoinRequests' = MapDel(pendingJoinRequests, peerId)
                 /\ emitted' = {AppError(s, "Peer disconnected")}
                 /\ UNCHANGED <<roomRegistry, socketRooms>>
       ELSE IF RoomFull(roomId)
            THEN /\ emitted' = {AppError(t, "Room is full") :
                                    t \in RoomFullRecipients(s, peerId)}
                 /\ UNCHANGED <<roomRegistry, socketRooms, pendingJoinRequests>>
       ELSE /\ pendingJoinRequests' = MapDel(pendingJoinRequests, peerId)
            /\ roomRegistry' = [roomRegistry EXCEPT ![roomId].peers = @ \cup {peerId}]
            /\ socketRooms' = [socketRooms EXCEPT ![peerId] = @ \cup {roomId}]
            \* io.to(roomId): every socket of the Socket.IO room, peerId included
            /\ emitted' =
                 {Msg(t, "peer-joined", roomId, peerId, NoPeer, "", 0) :
                      t \in Adapter(roomId) \cup {peerId}}
                 \cup {Msg(peerId, "room-joined", roomId, NoPeer, NoPeer, "", 0)}

PeerRejected(s, roomId, peerId, ok) ==
    /\ sockState[s] = "connected"
    /\ UNCHANGED sockState
    /\ LeavesRateEntry(s)
    /\ UNCHANGED nonServerVars
    /\ IF ~ok THEN Reject(s, "Too many requests")
       ELSE IF ~isValidRoomId(roomId) \/ peerId = NoPeer
            THEN Reject(s, "Invalid reject payload")
       ELSE IF ~inRoom(s, roomId) THEN Reject(s, "Not a member of this room")
       ELSE IF PendingRoom(peerId) # roomId
            THEN /\ emitted' = {}
                 /\ UNCHANGED <<roomRegistry, socketRooms, pendingJoinRequests>>
       ELSE /\ pendingJoinRequests' = MapDel(pendingJoinRequests, peerId)
            /\ emitted' = IF sockState[peerId] = "connected"
                          THEN {Msg(peerId, "peer-rejected", roomId, peerId, NoPeer, "", 0)}
                          ELSE {}
            /\ UNCHANGED <<roomRegistry, socketRooms>>

isPayloadValid(len) == len <= MaxSignalPayloadBytes

\* The sockets a relayed envelope goes to: socket.to(roomId).
RelayTargets(s, roomId) == Adapter(roomId) \ {s}

\* relay(eventName); len is JSON.stringify(data).length of the incoming data.
\* offer and answer skip checkRateLimit, so for them ok plays no part.
Relay(s, eventName, roomId, len, ok) ==
    /\ sockState[s] = "connected"
    /\ eventName \in {"offer", "answer"} => ok
    /\ UNCHANGED sockState
    /\ IF isPayloadValid(len) /\ eventName \notin {"offer", "answer"}
       THEN LeavesRateEntry(s)
       ELSE UNCHANGED socketRateLimits
    /\ UNCHANGED nonServerVars
    /\ IF ~isPayloadValid(len) THEN Reject(s, "Payload too large")
       ELSE IF ~ok THEN Reject(s, "Too many requests")
       ELSE IF ~isValidRoomId(roomId) THEN Reject(s, "Invalid room ID")
       ELSE IF ~inRoom(s, roomId) THEN Reject(s, "Not a member of this room")
       ELSE /\ emitted' = {Msg(t, eventName, roomId, NoPeer, s, "", len + FromFieldLen) :
                               t \in RelayTargets(s, roomId)}
            /\ UNCHANGED <<roomRegistry, socketRooms, pendingJoinRequests>>

\* The registry with s out of every peer set, the emptied rooms kept.
WithoutPeerKeepingRooms(s) ==
    [r \in DOMAIN roomRegistry |-> [roomRegistry[r] EXCEPT !.peers = @ \ {s}]]

\* The registry after the loop of the disconnect handler: s is out of every
\* peer set and the rooms whose peer set has become empty are deleted.
WithoutPeer(s) ==
    [r \in {x \in DOMAIN roomRegistry : roomRegistry[x].peers \ {s} # {}} |->
         [roomRegistry[r] EXCEPT !.peers = @ \ {s}]]

\* socket.on("disconnect"); Socket.IO has taken the socket out of its rooms.
Disconnect(s) ==
    /\ sockState[s] = "connected"
    /\ sockState' = [sockState EXCEPT ![s] = "closed"]
    /\ pendingJoinRequests' = MapDel(pendingJoinRequests, s)
    /\ roomRegistry' = WithoutPeer(s)
    /\ socketRooms' = [socketRooms EXCEPT ![s] = {}]
    /\ socketRateLimits' = socketRateLimits \ {s}
    /\ emitted' = {}
    /\ UNCHANGED nonServerVars

\* The sweep's test of one room, now - info.createdAt > config.roomTtlMs.
\* createdAt is read nowhere else, so a room of the model carries the
\* difference itself: age is the time from createdAt to the latest sweep.
Expired(age) == age > RoomTtlMs

\* The setInterval callback: it runs every SweepIntervalMs.
TtlSweep ==
    /\ roomRegistry' =
         [r \in {x \in DOMAIN roomRegistry :
                     ~Expired(roomRegistry[x].age + SweepIntervalMs)} |->
              [roomRegistry[r] EXCEPT !.age = @ + SweepIntervalMs]]
    /\ emitted' = {}
    /\ UNCHANGED <<sockState, socketRooms, pendingJoinRequests, socketRateLimits>>
    /\ UNCHANGED nonServerVars

-----------------------------------------------------------------------------
(* checkRateLimit for one socket, against a clock *)

\* How far the clock moves between two events: 1 ms, or a whole window.
ClockSteps == {1, RATE_LIMIT_WINDOW}

NoLimit == [has |-> FALSE, count |-> 0, resetTime |-> 0]

RateInit ==
    /\ rlNow = 0
    /\ rlSteps = 0
    /\ rlLimit = NoLimit
    /\ rlAccepted = << >>
    /\ rlLast = "none"

\* The window test with >= where the code has >.
WindowOverInclusive(t, limit) == t >= limit.resetTime

\* now > limit.resetTime: the window is over and the next event opens one.
WindowOver(t, limit) == t > limit.resetTime

\* The test with > where the code has >=.
WindowFullAbove(limit) == limit.count > RATE_LIMIT_MAX

\* limit.count >= RATE_LIMIT_MAX: the window has taken all it takes.
WindowFull(limit) == limit.count >= RATE_LIMIT_MAX

\* checkRateLimit(socketId) at time t with the entry limit: the result and
\* the entry it leaves in socketRateLimits.
checkRateLimit(t, limit) ==
    IF ~limit.has
    THEN [ok |-> TRUE,
          limit |-> [has |-> TRUE, count |-> 1, resetTime |-> t + RATE_LIMIT_WINDOW]]
    ELSE IF WindowOver(t, limit)
    THEN [ok |-> TRUE,
          limit |-> [has |-> TRUE, count |-> 1, resetTime |-> t + RATE_LIMIT_WINDOW]]
    ELSE IF WindowFull(limit)
    THEN [ok |-> FALSE, limit |-> limit]
    ELSE [ok |-> TRUE, limit |-> [limit EXCEPT !.count = @ + 1]]

\* The accepted events of the last RATE_LIMIT_WINDOW ms, as seen at time t.
Recent(log, t) ==
    [x \in {y \in DOMAIN log : y >= t - RATE_LIMIT_WINDOW} |-> log[x]]

RECURSIVE SumOver(_, _)
SumOver(log, times) ==
    IF times = {} THEN 0
    ELSE LET x == CHOOSE y \in times : TRUE
         IN  log[x] + SumOver(log, times \ {x})

\* How many events were accepted in the closed interval [from, to].
AcceptedIn(from, to) ==
    SumOver(rlAccepted, {x \in DOMAIN rlAccepted : x >= from /\ x <= to})

\* A rate-limited event (create-room, join-room, request-join, peer-accepted,
\* peer-rejected, candidate) reaches the server.
RateLimitedEvent ==
    LET r == checkRateLimit(rlNow, rlLimit)
    IN  /\ rlLimit' = r.limit
        /\ rlLast' = IF r.ok THEN "accepted" ELSE "rejected"
        /\ rlAccepted' =
             IF r.ok
             THEN MapPut(rlAccepted, rlNow,
                         IF rlNow \in DOMAIN rlAccepted THEN rlAccepted[rlNow] + 1 ELSE 1)
             ELSE rlAccepted
        /\ UNCHANGED <<rlNow, rlSteps>>
        /\ UNCHANGED nonRateVars

\* An offer or an answer reaches the server: relay skips checkRateLimit.
ExemptEvent ==
    /\ rlLast' = "exempt"
    /\ UNCHANGED <<rlNow, rlSteps, rlLimit, rlAccepted>>
    /\ UNCHANGED nonRateVars

\* Time passes.
ClockAdvance(d) ==
    /\ rlSteps < MaxClockSteps
    /\ rlSteps' = rlSteps + 1
    /\ rlNow' = rlNow + d
    /\ rlAccepted' = Recent(rlAccepted, rlNow + d)
    /\ rlLast' = "none"
    /\ UNCHANGED rlLimit
    /\ UNCHANGED nonRateVars

-----------------------------------------------------------------------------
(* Bytes, 32-bit words and CRC32 *)

RECURSIVE BitXor(_, _)
BitXor(a, b) ==
    IF a = 0 THEN b
    ELSE IF b = 0 THEN a
    ELSE ((a + b) % 2) + 2 * BitXor(a \div 2, b \div 2)

\* a ^ b for two bytes, tabulated once.
Xor8 == [a \in 0..255 |-> [b \in 0..255 |-> BitXor(a, b)] @@ << >>] @@ << >>

Xor16(x, y) == 256 * Xor8[x \div 256][y \div 256] + Xor8[x % 256][y % 256]

\* An unsigned 32-bit word is kept as its two 16-bit halves.
Word(hi, lo) == [hi |-> hi, lo |-> lo]

WordXor(v, w) == Word(Xor16(v.hi, w.hi), Xor16(v.lo, w.lo))

\* w >>> 1 and w >>> 8
ShiftRight1(w) == Word(w.hi \div 2, (w.lo \div 2) + (w.hi % 2) * 32768)

ShiftRight8(w) == Word(w.hi \div 256, (w.lo \div 256) + (w.hi % 256) * 256)

\* 0xedb88320
PolyHi == 60856
PolyLo == 33568

AllOnes == Word(65535, 65535)

\* One round of the table's inner loop.
TableStep(w) ==
    IF w.lo % 2 = 1 THEN WordXor(ShiftRight1(w), Word(PolyHi, PolyLo))
    ELSE ShiftRight1(w)

RECURSIVE TableSteps(_, _)
TableSteps(w, j) == IF j = 0 THEN w ELSE TableSteps(TableStep(w), j - 1)

\* The table is built once, as the module-level loop builds it.
CRC32_TABLE == [i \in 0..255 |-> TableSteps(Word(0, i), 8)] @@ << >>

\* crc = (crc >>> 8) ^ CRC32_TABLE[(crc ^ byte) & 0xff]
crcStep(crc, byte) ==
    WordXor(ShiftRight8(crc), CRC32_TABLE[Xor8[crc.lo % 256][byte]])

RECURSIVE crcLoop(_, _, _)
\* The loop over the bytes; each round's crc is a value before the next
\* round starts.
crcLoop(crc, bytes, i) ==
    IF i > Len(bytes) THEN crc
    ELSE CHOOSE r \in {crcLoop(c, bytes, i + 1) : c \in {crcStep(crc, bytes[i])}} : TRUE

calculateCRC32(bytes) ==
    CHOOSE r \in {WordXor(c, AllOnes) : c \in {crcLoop(AllOnes, bytes, 1)}} : TRUE

\* DataView.setUint32(0, w, true): the four bytes, lowest first.
setUint32LE(w) ==
    <<w.lo % 256, w.lo \div 256, w.hi % 256, w.hi \div 256>>

\* DataView.getUint32(0, true) of a buffer of at least four bytes.
getUint32LE(bytes) ==
    Word(bytes[3] + 256 * bytes[4], bytes[1] + 256 * bytes[2])

-----------------------------------------------------------------------------
(* The file transfer: configuration and initial state *)

\* The two senders of the repository: webrtc/sender.js, which the manager
\* delegates to, and the continueSendFile of webrtc.js that adapts
\* currentChunkSize.
Senders == {"sender.js", "webrtc.js"}

\* The defaults of the configuration.
DefaultChunkSize    == 131072
DefaultMinChunkSize == 32768
DefaultMaxChunkSize == 262144
DefaultHighWater    == 1048576
DefaultLowWater     == 262144
DefaultMaxInMemory  == 209715200
MinTargetBuffer     == 131072
DefaultYieldTimeMs  == 50

\* JSON.stringify(metadata).length for a file with a one-character name.
MetadataLen == 145

\* The configurations of the transfer.  Sizes are scaled to a few bytes so
\* that a file is a handful of chunks; the water marks are compared with
\* frames of 4 + chunk bytes and with the metadata frame.
ChunkSizeSettings == {[defaultChunkSize |-> 10, minChunkSize |-> 8, maxChunkSize |-> 12]}

\* <<bufferHighWater, bufferLowWater>>: low below high, low equal to high,
\* low above high, and a high mark a short file never reaches.
WaterSettings == {<<12, 10>>, <<12, 12>>, <<12, 200>>, <<200, 10>>}

\* maxInMemorySize: below the larger files, and the default.
InMemorySettings == {5, DefaultMaxInMemory}

\* Chunks of 4 bytes with both water marks at the size of one chunk frame
\* (4 + 4), so that a file of MaxFileSize bytes is three full chunks.
SmallChunkConfigs ==
    {[impl |-> i,
      defaultChunkSize |-> 4,
      minChunkSize |-> 3,
      maxChunkSize |-> 5,
      bufferHighWater |-> 8,
      bufferLowWater |-> 8,
      maxInMemorySize |-> DefaultMaxInMemory,
      showSaveFilePicker |-> FALSE] : i \in Senders}

Configs ==
    SmallChunkConfigs \cup
    {[impl |-> i,
      defaultChunkSize |-> c.defaultChunkSize,
      minChunkSize |-> c.minChunkSize,
      maxChunkSize |-> c.maxChunkSize,
      bufferHighWater |-> w[1],
      bufferLowWater |-> w[2],
      maxInMemorySize |-> m,
      showSaveFilePicker |-> p] :
        i \in Senders, c \in ChunkSizeSettings, w \in WaterSettings,
        m \in InMemorySettings, p \in BOOLEAN}

DefaultConfig ==
    [impl |-> "sender.js",
     defaultChunkSize |-> DefaultChunkSize,
     minChunkSize |-> DefaultMinChunkSize,
     maxChunkSize |-> DefaultMaxChunkSize,
     bufferHighWater |-> DefaultHighWater,
     bufferLowWater |-> DefaultLowWater,
     maxInMemorySize |-> DefaultMaxInMemory,
     showSaveFilePicker |-> TRUE]

\* x || fallback, for a number x
OrDefault(x, fallback) == IF x = 0 THEN fallback ELSE x

\* The file of n bytes: byte i tells its position.
FileOfSize(n) == [i \in 1..n |-> (37 * i + 11) % 256]

Files == {FileOfSize(n) : n \in 0..MaxFileSize}

Min(a, b) == IF a < b THEN a ELSE b

Max(a, b) == IF a > b THEN a ELSE b

CeilDiv(a, b) == (a + b - 1) \div b

\* The state of the two managers after construction, a file chosen.
XferStart(cfg, f) ==
    /\ config = cfg
    /\ file = f
    /\ sendState = [file |-> FALSE,
                    offset |-> 0,
                    chunkSize |-> OrDefault(cfg.defaultChunkSize, DefaultChunkSize),
                    currentChunkSize |-> OrDefault(cfg.defaultChunkSize, DefaultChunkSize),
                    paused |-> FALSE,
                    backpressureCount |-> 0,
                    batchSize |-> 0,
                    yieldTimeMs |-> 0]
    /\ loop = [pc |-> "idle", from |-> "none", currentBatchSize |-> 0,
               yieldTimeMs |-> 0, chunksSentThisBatch |-> 0, start |-> 0, end |-> 0]
    /\ others = << >>
    /\ channel = << >>
    /\ lowEvents = 0
    /\ receiveState = [fileInfo |-> FALSE, size |-> 0, totalChunks |-> 0,
                       chunks |-> << >>, receivedChunks |-> 0, receivedSize |-> 0,
                       useStreaming |-> FALSE, streamWriter |-> "null",
                       picker |-> "idle", lastValidationError |-> FALSE]
    /\ sink = << >>
    /\ delivered = [transferComplete |-> FALSE, as |-> "nothing", bytes |-> << >>]

\* The transfer left alone: what Spec and SpecRate start from and keep.
XferIdle == XferStart(DefaultConfig, << >>)

XferInit == \E cfg \in Configs, f \in Files : XferStart(cfg, f)

-----------------------------------------------------------------------------
(* The sender: sendFile, continueSendFile, onbufferedamountlow *)

\* sendState.file stands for the File object being sent; its bytes are file.
\* channelState is manager.dataChannel.readyState, "none" while
\* manager.dataChannel is null.

TextFrame(meta) == [type |-> "string", metadata |-> meta, bytes |-> << >>]

BinaryFrame(bytes) == [type |-> "binary", metadata |-> << >>, bytes |-> bytes]

FrameLen(f) == IF f.type = "string" THEN MetadataLen ELSE Len(f.bytes)

RECURSIVE SumLen(_, _)
SumLen(frames, i) ==
    IF i > Len(frames) THEN 0 ELSE FrameLen(frames[i]) + SumLen(frames, i + 1)

\* dataChannel.bufferedAmount
bufferedAmount == SumLen(channel, 1)

highWater == OrDefault(config.bufferHighWater, DefaultHighWater)

\* channel.bufferedAmountLowThreshold, set by setupDataChannel
bufferedAmountLowThreshold == OrDefault(config.bufferLowWater, DefaultLowWater)

targetBuffer == Max(MinTargetBuffer, highWater \div 2)

\* A call of continueSendFile is suspended in the file read or in the yield.
Suspended == {"read", "yield"}

\* The start of continueSendFile, past its guard: the loop's locals.  from is
\* the caller, sendFile or the bufferedamountlow handler.
EnterLoop(ss, caller) ==
    [pc |-> "head",
     from |-> caller,
     currentBatchSize |-> OrDefault(ss.batchSize, 1),
     yieldTimeMs |-> OrDefault(ss.yieldTimeMs, DefaultYieldTimeMs),
     chunksSentThisBatch |-> 0,
     start |-> 0,
     end |-> 0]

\* webrtc.js: what a pause does to backpressureCount and currentChunkSize.
LegacyOnPause(ss) ==
    IF ss.backpressureCount + 1 > 5
    THEN [ss EXCEPT !.backpressureCount = 0,
                    !.currentChunkSize =
                        Max(OrDefault(config.minChunkSize, DefaultMinChunkSize),
                            (ss.currentChunkSize * 8) \div 10)]
    ELSE [ss EXCEPT !.backpressureCount = @ + 1]

\* webrtc.js: currentChunkSize grows by a tenth while no pause was counted.
LegacyGrow(ss) ==
    IF /\ ss.backpressureCount = 0
       /\ ss.currentChunkSize < OrDefault(config.maxChunkSize, DefaultMaxChunkSize)
    THEN [ss EXCEPT !.currentChunkSize =
                        Min(OrDefault(config.maxChunkSize, DefaultMaxChunkSize),
                            (ss.currentChunkSize * 11) \div 10)]
    ELSE ss

\* The adaptation without its limits.
AdaptUnbounded(l, buffered) ==
    IF buffered < targetBuffer \div 4
    THEN IF l.currentBatchSize < 20
         THEN [l EXCEPT !.currentBatchSize = @ + 2,
                        !.yieldTimeMs = @ - 5]
         ELSE l
    ELSE IF buffered > targetBuffer
    THEN IF l.currentBatchSize > 1
         THEN [l EXCEPT !.currentBatchSize = (@ * 7) \div 10,
                        !.yieldTimeMs = @ + 20]
         ELSE l
    ELSE l

\* The pause test with the high-water mark doubled.
BufferFullAboveTwice(frames) == SumLen(frames, 1) > 2 * highWater

\* dataChannel.bufferedAmount > highWater
BufferFull(frames) == SumLen(frames, 1) > highWater

\* Past the while loop with the offset at the end of the file: sender.js
\* marks the transfer complete and keeps the batch size and the yield time.
Finish(ss, l) ==
    [ss |-> IF config.impl = "sender.js"
            THEN [ss EXCEPT !.batchSize = l.currentBatchSize,
                            !.yieldTimeMs = l.yieldTimeMs]
            ELSE ss,
     loop |-> [l EXCEPT !.pc = "done"]]

\* A break out of the while loop: the test past the loop still runs.
Break(ss, l) ==
    IF ss.offset >= Len(file)
    THEN Finish(ss, l)
    ELSE [ss |-> ss, loop |-> [l EXCEPT !.pc = "stopped"]]

\* continueSendFile from the head of its while loop to where it next leaves
\* the thread: the return of a pause, the await of the file read, or, past
\* the loop, the completion.  frames is the channel's buffer at that moment.
\* With manager.dataChannel null the read of bufferedAmount throws.
LoopHead(ss, l, frames) ==
    IF ss.offset < Len(file)
    THEN IF channelState = "none"
         THEN [ss |-> ss, loop |-> [l EXCEPT !.pc = "threw"]]
         ELSE IF BufferFull(frames)
         THEN [ss |-> [(IF config.impl = "webrtc.js" THEN LegacyOnPause(ss) ELSE ss)
                          EXCEPT !.paused = TRUE],
               loop |-> [l EXCEPT !.pc = "returned"]]
         ELSE LET grown == IF config.impl = "webrtc.js" THEN LegacyGrow(ss) ELSE ss
              IN  [ss |-> grown,
                   loop |-> [l EXCEPT
                                !.pc = "read",
                                !.start = grown.offset,
                                !.end = Min(grown.offset + grown.currentChunkSize,
                                            Len(file))]]
    ELSE Finish(ss, l)

\* The error sendFile shows when continueSendFile throws; the handler of
\* bufferedamountlow only logs what it catches.
Thrown(l, shown) ==
    IF l.pc = "threw" /\ l.from = "sendFile"
    THEN IF config.impl = "sender.js" THEN "Transfer failed"
         ELSE "Failed to start transfer"
    ELSE shown

\* What a call of continueSendFile that ran up to r leaves on the manager:
\* sendState, lifecycle.transferComplete at the completion in sender.js, and
\* the error shown: shown is what the loop has shown itself, "" if nothing.
LoopOutcome(r, shown) ==
    /\ sendState' = r.ss
    /\ lifecycle' = IF r.loop.pc = "done" /\ config.impl = "sender.js"
                    THEN [lifecycle EXCEPT !.transferComplete = TRUE]
                    ELSE lifecycle
    /\ errorShown' = Thrown(r.loop, shown)
    /\ UNCHANGED nonLoopVars

\* The bound on the calls that are suspended at once.
MaxSuspended == 2

\* A new call of continueSendFile: the call made before it, if it is still
\* suspended, stays so.
Supersede ==
    /\ others' = IF loop.pc \in Suspended THEN Append(others, loop) ELSE others
    /\ Len(others') < MaxSuspended

\* sendFile(file) with the channel open: the metadata frame, then
\* continueSendFile up to its first await or return.
SendFile ==
    /\ LET ss == IF config.impl = "sender.js"
                 THEN [sendState EXCEPT
                          !.file = TRUE,
                          !.offset = 0,
                          !.chunkSize = OrDefault(config.defaultChunkSize, DefaultChunkSize),
                          !.currentChunkSize = OrDefault(config.defaultChunkSize, DefaultChunkSize),
                          !.paused = FALSE,
                          !.backpressureCount = 0]
                 ELSE [sendState EXCEPT
                          !.file = TRUE,
                          !.offset = 0,
                          !.chunkSize = OrDefault(config.defaultChunkSize, DefaultChunkSize)]
           metadata == [size |-> Len(file),
                        totalChunks |-> CeilDiv(Len(file), ss.chunkSize),
                        chunkSize |-> ss.chunkSize]
           sent == Append(channel, TextFrame(metadata))
           r == LoopHead(ss, EnterLoop(ss, "sendFile"), sent)
       IN  /\ channel' = sent
           /\ loop' = r.loop
           /\ sendState' = r.ss
           /\ lifecycle' = IF r.loop.pc = "done" /\ config.impl = "sender.js"
                           THEN [lifecycle EXCEPT !.transferComplete = TRUE]
                           ELSE lifecycle
           /\ errorShown' = Thrown(r.loop, "")
    /\ Supersede
    /\ UNCHANGED <<config, file, lowEvents, receiveState, sink, delivered>>

\* The chunk frame: CRC32 of the payload, little-endian, then the payload.
chunkWithCrc(buffer) == setUint32LE(calculateCRC32(buffer)) \o buffer

\* sender.js at a batch boundary: the batch size and the yield time adapt to
\* the buffer as it is after the send.
Adapt(l, buffered) ==
    IF buffered < targetBuffer \div 4
    THEN IF l.currentBatchSize < 20
         THEN [l EXCEPT !.currentBatchSize = Min(20, @ + 2),
                        !.yieldTimeMs = Max(10, @ - 5)]
         ELSE l
    ELSE IF buffered > targetBuffer
    THEN IF l.currentBatchSize > 1
         THEN [l EXCEPT !.currentBatchSize = Max(1, (@ * 7) \div 10),
                        !.yieldTimeMs = Min(200, @ + 20)]
         ELSE l
    ELSE l

\* The frames in the buffer once the file read of call l has resolved: the
\* slice taken before the read is sent if the manager's channel is open.
SentAfterRead(l, frames) ==
    IF channelState = "open"
    THEN Append(frames, BinaryFrame(chunkWithCrc(SubSeq(file, l.start + 1, l.end))))
    ELSE frames

\* With manager.dataChannel null the test of readyState throws inside the
\* try, and the catch shows the error.
ShownAfterRead == IF channelState = "none" THEN "Send failed" ELSE ""

\* The file read of call l has resolved: with the channel open the frame is
\* sent, the offset advances, and the loop runs on to its next await or
\* return (webrtc.js yields after every chunk, sender.js after every batch
\* and otherwise goes round); otherwise the loop breaks.
AfterRead(l, ss, frames) ==
    IF channelState # "open"
    THEN Break(ss, l)
    ELSE LET sent == SentAfterRead(l, frames)
             ss1 == [ss EXCEPT !.offset = @ + (l.end - l.start)]
             l1 == [l EXCEPT !.chunksSentThisBatch = @ + 1]
         IN  IF config.impl = "webrtc.js"
             THEN [ss |-> ss1, loop |-> [l EXCEPT !.pc = "yield"]]
             ELSE IF l1.chunksSentThisBatch >= l1.currentBatchSize
             THEN [ss |-> ss1,
                   loop |-> [Adapt([l1 EXCEPT !.chunksSentThisBatch = 0],
                                   SumLen(sent, 1))
                                EXCEPT !.pc = "yield"]]
             ELSE LoopHead(ss1, l1, sent)

\* The file read of the call made last has resolved.
SendChunk ==
    /\ loop.pc = "read"
    /\ LET r == AfterRead(loop, sendState, channel)
       IN  /\ channel' = SentAfterRead(loop, channel)
           /\ loop' = r.loop
           /\ LoopOutcome(r, ShownAfterRead)
    /\ UNCHANGED <<config, file, others, lowEvents, receiveState, sink, delivered>>

\* The setTimeout of the yield fires and the loop goes round.
YieldDone ==
    /\ loop.pc = "yield"
    /\ LET r == LoopHead(sendState, loop, channel)
       IN  /\ loop' = r.loop
           /\ LoopOutcome(r, "")
    /\ UNCHANGED <<config, file, others, channel, lowEvents, receiveState, sink,
                   delivered>>

\* others with call i at l, or without it once it has ended.
OthersWith(i, l) ==
    IF l.pc \in Suspended
    THEN [others EXCEPT ![i] = l]
    ELSE SubSeq(others, 1, i - 1) \o SubSeq(others, i + 1, Len(others))

\* The file read of an earlier call has resolved.
EarlierSendChunk(i) ==
    /\ i \in DOMAIN others
    /\ others[i].pc = "read"
    /\ LET r == AfterRead(others[i], sendState, channel)
       IN  /\ channel' = SentAfterRead(others[i], channel)
           /\ others' = OthersWith(i, r.loop)
           /\ LoopOutcome(r, ShownAfterRead)
    /\ UNCHANGED <<config, file, loop, lowEvents, receiveState, sink, delivered>>

\* The yield of an earlier call is over.
EarlierYieldDone(i) ==
    /\ i \in DOMAIN others
    /\ others[i].pc = "yield"
    /\ LET r == LoopHead(sendState, others[i], channel)
       IN  /\ others' = OthersWith(i, r.loop)
           /\ LoopOutcome(r, "")
    /\ UNCHANGED <<config, file, loop, channel, lowEvents, receiveState, sink,
                   delivered>>

\* The handler's test with the pause flag negated.
ShouldResumeUnlessPaused ==
    ~sendState.paused /\ sendState.file /\ sendState.offset < Len(file)

\* paused && file && offset < file.size
ShouldResume == sendState.paused /\ sendState.file /\ sendState.offset < Len(file)

\* channel.onbufferedamountlow: a paused transfer is resumed, and
\* continueSendFile runs up to its first await or return; its guard lets it
\* run only with the manager's channel open.
OnBufferedAmountLow ==
    /\ lowEvents > 0
    /\ lowEvents' = lowEvents - 1
    /\ IF ShouldResume
       THEN IF channelState = "open"
            THEN LET r == LoopHead([sendState EXCEPT !.paused = FALSE],
                                   EnterLoop(sendState, "drain"), channel)
                 IN  /\ loop' = r.loop
                     /\ LoopOutcome(r, "")
                     /\ Supersede
            ELSE /\ sendState' = [sendState EXCEPT !.paused = FALSE]
                 /\ errorShown' = ""
                 /\ UNCHANGED <<loop, others, lifecycle>>
                 /\ UNCHANGED nonLoopVars
       ELSE /\ errorShown' = ""
            /\ UNCHANGED <<sendState, loop, others, lifecycle>>
            /\ UNCHANGED nonLoopVars
    /\ UNCHANGED <<config, file, channel, receiveState, sink, delivered>>

-----------------------------------------------------------------------------
(* The receiver: handleMessage, initializeReceiver, handleChunkData *)

maxInMemory == OrDefault(config.maxInMemorySize, DefaultMaxInMemory)

\* initializeReceiver up to its await: the counters are reset, and a file
\* above maxInMemory waits for the save-file picker when the browser has one.
initializeReceiver(rs, metadata) ==
    LET r == [rs EXCEPT !.fileInfo = TRUE,
                        !.size = metadata.size,
                        !.totalChunks = metadata.totalChunks,
                        !.chunks = << >>,
                        !.receivedChunks = 0,
                        !.receivedSize = 0]
    IN  IF metadata.size > maxInMemory
        THEN IF config.showSaveFilePicker
             THEN [r EXCEPT !.picker = "awaiting"]
             ELSE [r EXCEPT !.useStreaming = FALSE]
        ELSE [r EXCEPT !.useStreaming = FALSE]

RECURSIVE Concat(_, _, _)
\* The chunks 0 .. n-1 of the map, in order, as one sequence of bytes.
Concat(chunks, i, n) ==
    IF i >= n THEN << >> ELSE chunks[i] \o Concat(chunks, i + 1, n)

\* receivedChunks >= totalChunks
ReceiveDone(rs) == rs.receivedChunks >= rs.totalChunks

\* handleChunkData takes the streaming branch.
WritesToStream(rs) == rs.useStreaming /\ rs.streamWriter # "null"

\* The integrity test left out.
CrcMatchesAlways(buffer) == TRUE

\* receivedCrc32 === computedCrc32
CrcMatches(buffer) ==
    getUint32LE(buffer) = calculateCRC32(SubSeq(buffer, 5, Len(buffer)))

\* The rejected frame counted all the same.
OnCrcMismatchCounted(rs) ==
    [rs EXCEPT !.lastValidationError = TRUE, !.receivedChunks = @ + 1]

\* The integrity error: lastValidationError is set and the frame is dropped.
OnCrcMismatch(rs) == [rs EXCEPT !.lastValidationError = TRUE]

\* handleChunkData and completeFileReceive for one binary frame, as the
\* three variables they leave.  A write to the stream and the counting that
\* follows it are one step: the stream takes writes in the order of the
\* calls, and what runs between a write and its continuation reads none of
\* what the continuation changes.
handleChunkData(rs, sk, dl, buffer) ==
    IF ~rs.fileInfo \/ Len(buffer) < 4
    THEN <<rs, sk, dl>>
    ELSE
    LET chunkData == SubSeq(buffer, 5, Len(buffer))
    IN  IF ~CrcMatches(buffer)
        THEN <<OnCrcMismatch(rs), sk, dl>>
        ELSE IF WritesToStream(rs) /\ rs.streamWriter = "closed"
        THEN \* the write is rejected: "Failed to write chunk"
             <<rs, sk, dl>>
        ELSE
        LET stored == IF WritesToStream(rs) THEN rs
                      ELSE [rs EXCEPT !.chunks = MapPut(@, rs.receivedChunks, chunkData)]
            sk1 == IF WritesToStream(rs) THEN sk \o chunkData ELSE sk
            counted == [stored EXCEPT !.receivedChunks = @ + 1,
                                      !.receivedSize = @ + Len(chunkData)]
        IN  IF ~ReceiveDone(counted)
            THEN <<counted, sk1, dl>>
            \* completeFileReceive
            ELSE IF counted.streamWriter = "open"
            THEN <<[counted EXCEPT !.streamWriter = "closed"], sk1,
                   [transferComplete |-> TRUE, as |-> "stream", bytes |-> sk1]>>
            ELSE IF counted.streamWriter = "closed"
            THEN \* close() of a closed stream throws
                 <<counted, sk1, dl>>
            ELSE IF \E i \in 0..(counted.receivedChunks - 1) : i \notin DOMAIN counted.chunks
            THEN \* "Missing chunk"
                 <<counted, sk1, dl>>
            ELSE <<[counted EXCEPT !.chunks = << >>], sk1,
                   [transferComplete |-> TRUE, as |-> "file",
                    bytes |-> Concat(counted.chunks, 0, counted.receivedChunks)]>>

\* The oldest frame leaves the sender's buffer of the open channel and the
\* receiver's onmessage runs on what arrives.  bufferedamountlow fires when
\* the buffered amount falls from above the threshold to it or below.
Deliver(frame) ==
    /\ channel # << >>
    /\ channelState = "open"
    /\ LET before == bufferedAmount
           after == before - FrameLen(Head(channel))
           r == IF frame.type = "string"
                THEN <<initializeReceiver(receiveState, frame.metadata), sink, delivered>>
                ELSE handleChunkData(receiveState, sink, delivered, frame.bytes)
       IN  /\ channel' = Tail(channel)
           /\ lowEvents' =
                IF before > bufferedAmountLowThreshold /\ after <= bufferedAmountLowThreshold
                THEN lowEvents + 1 ELSE lowEvents
           /\ receiveState' = r[1]
           /\ sink' = r[2]
           /\ delivered' = r[3]
    /\ UNCHANGED <<config, file, sendState, loop, others>>
    /\ UNCHANGED nonXferVars

\* The frame arrives as it was sent.
Drain == channel # << >> /\ Deliver(Head(channel))

\* What can happen to a chunk frame on its way: a bit of the header or of
\* the payload is flipped, or the frame is cut to 3 bytes.
Damages == {"header", "payload", "cut"}

Damage(kind, bytes) ==
    CASE kind = "header"  -> [bytes EXCEPT ![1] = Xor8[@][1]]
      [] kind = "payload" -> [bytes EXCEPT ![Len(bytes)] = Xor8[@][1]]
      [] kind = "cut"     -> SubSeq(bytes, 1, 3)

\* A chunk frame arrives damaged.
DrainDamaged(kind) ==
    /\ channel # << >>
    /\ Head(channel).type = "binary"
    /\ Deliver(BinaryFrame(Damage(kind, Head(channel).bytes)))

\* showSaveFilePicker settles: the user picks a file or cancels, and
\* initializeReceiver runs to its end.
PickerSettles(granted) ==
    /\ receiveState.picker = "awaiting"
    /\ receiveState' =
         IF granted
         THEN [receiveState EXCEPT !.picker = "idle", !.streamWriter = "open",
                                   !.useStreaming = TRUE]
         ELSE [receiveState EXCEPT !.picker = "idle", !.useStreaming = FALSE]
    /\ UNCHANGED <<config, file, sendState, loop, others, channel, lowEvents, sink,
                   delivered>>
    /\ UNCHANGED nonXferVars

-----------------------------------------------------------------------------
(* The client's signaling: handleSignal, flushRemoteCandidateQueue *)

\* Candidates are numbered in the order of their arrival.
Candidates == 1..MaxCandidates

SignalInit ==
    /\ peerConnection = FALSE
    /\ remoteDescription = FALSE
    /\ remoteCandidateQueue = << >>
    /\ applied = << >>
    /\ described = "idle"
    /\ arrived = 0
    /\ queuedEver = {}

-----------------------------------------------------------------------------
(* The client's peer connection: setupPeerConnection, resetConnection and  *)
(* the handlers setupPeerConnection and setupDataChannel install           *)

NoFile == "null"

Rooms == {"r1", "r2"}

FilesToSend == {"f1", "f2"}

RestartDelayMs == 250

OpenTimeoutMs == 30000

\* The bound on the timeouts that are set at once.
MaxTimers == 2

NoTimer == << >>

\* The constructor and initLifecycle: no room, no connection; the flags
\* initLifecycle leaves undefined read as false.
RestartInit ==
    /\ isInitiator = FALSE
    /\ clientRoomId = "null"
    /\ pendingFile = NoFile
    /\ lifecycle = [intentionalClose |-> FALSE, transferComplete |-> FALSE,
                    hasRemotePeer |-> FALSE,
                    everConnected |-> FALSE, restartingForPeer |-> FALSE,
                    restartTimer |-> NoTimer, disconnectTimer |-> FALSE]
    /\ connectionState = "none"
    /\ channelState = "none"
    /\ status = ""
    /\ timers = << >>
    /\ errorShown = ""

\* The variables of app.js as the page declares them (lines 49-53), and no
\* prompt shown.
NoPeerId == "null"

AppInit ==
    /\ offerCreatedForRoom = "null"
    /\ lastJoinedPeerId = NoPeerId
    /\ pendingAcceptedPeerId = NoPeerId
    /\ promptPeerId = NoPeerId
    /\ offerTimers = 0

PeerInit == SignalInit /\ RestartInit /\ AppInit

\* The timeouts of setupDataChannel (openTimeout, a local of the call) and of
\* the restart (lifecycle.restartTimer).  stale tells that the connection the
\* timeout was set for has been reset since.
OpenTimer ==
    [kind |-> "open", stale |-> FALSE, roomId |-> "null", file |-> NoFile,
     delay |-> OpenTimeoutMs]

WithoutTimer(ts, i) == SubSeq(ts, 1, i - 1) \o SubSeq(ts, i + 1, Len(ts))

\* clearTimeout(openTimeout) in the handlers of the manager's channel.
WithoutOpenTimer(ts) ==
    SelectSeq(ts, LAMBDA t : ~(t.kind = "open" /\ ~t.stale))

\* clearTimeout(manager.lifecycle.restartTimer): the handle is that of the
\* restart scheduled last.
WithoutRestartTimer(ts) ==
    LET at == {i \in DOMAIN ts : ts[i].kind = "restart"}
    IN  IF at = {} THEN ts
        ELSE WithoutTimer(ts, CHOOSE i \in at : \A j \in at : j <= i)

\* resetConnection, as what it leaves of the lifecycle: the close is marked
\* intentional and the disconnect timer is cleared.  The handlers are taken
\* off, the channel and the connection are closed and dropped.
resetConnection(lc) ==
    [lc EXCEPT !.intentionalClose = TRUE, !.disconnectTimer = FALSE]

\* resetConnection, as what it leaves of the timeouts: it clears neither the
\* open timeout of the channel it closes nor the restart timer.
AfterReset(ts) == [i \in DOMAIN ts |-> [ts[i] EXCEPT !.stale = TRUE]]

\* The channel of a connection that is reset: what it had buffered is gone
\* and its events are no longer handled.  The calls of continueSendFile that
\* are suspended stay so.
ChannelDropped ==
    /\ channel' = << >>
    /\ lowEvents' = 0
    /\ UNCHANGED <<config, file, sendState, loop, others, receiveState, sink,
                   delivered>>
    /\ UNCHANGED <<serverVars, rateVars>>

\* setupPeerConnection(manager, room, initiator, fileToSend) with the
\* timeouts ts set and lifecycle.restartTimer at handle: what is left of an
\* old connection is reset, the
\* lifecycle starts a new session, a pending restart is cancelled, and a new
\* RTCPeerConnection is made; the initiator creates the data channel, and
\* setupDataChannel sets its open timeout.
setupPeerConnectionWith(ts, handle, room, initiator, fileToSend) ==
    /\ lifecycle' = [intentionalClose |-> FALSE, transferComplete |-> FALSE,
                     hasRemotePeer |-> FALSE,
                     everConnected |-> FALSE, restartingForPeer |-> FALSE,
                     restartTimer |-> NoTimer, disconnectTimer |-> FALSE]
    /\ LET reset == IF peerConnection \/ channelState # "none"
                    THEN AfterReset(ts) ELSE ts
           cleared == IF handle # NoTimer
                      THEN WithoutRestartTimer(reset) ELSE reset
       IN  timers' = IF initiator THEN Append(cleared, OpenTimer) ELSE cleared
    /\ Len(timers') <= MaxTimers
    /\ clientRoomId' = room
    /\ isInitiator' = initiator
    /\ pendingFile' = fileToSend
    /\ status' = IF initiator THEN "Waiting for peer..." ELSE "Connecting..."
    /\ peerConnection' = TRUE
    /\ connectionState' = "new"
    /\ remoteDescription' = FALSE
    /\ applied' = << >>
    /\ channelState' = IF initiator THEN "connecting" ELSE "none"
    /\ errorShown' = ""
    /\ UNCHANGED <<remoteCandidateQueue, described, arrived, queuedEver>>
    /\ ChannelDropped

setupPeerConnection(room, initiator, fileToSend) ==
    setupPeerConnectionWith(timers, lifecycle.restartTimer, room, initiator,
                            fileToSend)

\* The calls of the application: the sender has picked a file, for which
\* onFileSelect makes a room of its own, or the receiver was let into the
\* room of its link.
SetupInputs ==
    {<<"r1", TRUE, "f1">>, <<"r2", TRUE, "f2">>} \cup
    {<<r, FALSE, NoFile>> : r \in Rooms}

\* The first peer connection of the page.
SetupPeerConnection ==
    /\ ~peerConnection
    /\ \E i \in SetupInputs : setupPeerConnection(i[1], i[2], i[3])
    /\ UNCHANGED appVars

\* beforeunload has run and nothing has set up a connection since: the page
\* is going, and neither its user nor the server reaches it any more.
Unloading == clientRoomId # "null" /\ ~peerConnection

\* The application sets up a connection, whatever there was before.  A page
\* is a receiver, with the room of its link, or a sender for as long as it
\* lives.
AppSetup(room, initiator, fileToSend) ==
    /\ ~Unloading
    /\ initiator <=> fileToSend # NoFile
    /\ clientRoomId # "null" => initiator = isInitiator
    /\ clientRoomId # "null" /\ ~initiator => room = clientRoomId
    /\ setupPeerConnection(room, initiator, fileToSend)
    /\ IF initiator
       THEN /\ offerCreatedForRoom' = "null"
            /\ lastJoinedPeerId' = NoPeerId
            /\ UNCHANGED <<pendingAcceptedPeerId, promptPeerId, offerTimers>>
       ELSE UNCHANGED appVars

\* tryRestoreRoomMembership of a sender with a file selected: the peer
\* connection is set up anew for the room.
RestoreSender ==
    /\ setupPeerConnection(clientRoomId, TRUE, pendingFile)
    /\ UNCHANGED appVars

\* socket.on('connect') of app.js: the signaling socket has connected, for
\* the first time or again, and tryRestoreRoomMembership runs.  The room and
\* the file of the application are those the manager was set up with; what
\* the handler emits to the server is left out.
SocketConnects ==
    /\ ~Unloading
    /\ IF clientRoomId = "null" \/ ~isInitiator
       THEN /\ status' = IF clientRoomId = "null" THEN "Connected"
                         ELSE "Reconnecting (connected)..."
            /\ errorShown' = ""
            /\ UNCHANGED <<isInitiator, clientRoomId, pendingFile, lifecycle,
                           connectionState, channelState, timers>>
            /\ UNCHANGED signalVars
            /\ UNCHANGED nonPeerVars
       ELSE RestoreSender

\* socket.on('peer-joined') of app.js, which the server sends to the
\* members of a room: the sender notes the remote peer.  The two texts of
\* the sender's status, 'Peer joined! Creating offer...' and 'Peer joined!',
\* are one here.
PeerJoined ==
    /\ clientRoomId # "null"
    /\ ~Unloading
    /\ IF isInitiator
       THEN /\ lifecycle' = [lifecycle EXCEPT !.hasRemotePeer = TRUE]
            /\ status' = "Peer joined!"
       ELSE /\ status' = "Connected. Receiving..."
            /\ UNCHANGED lifecycle
    /\ errorShown' = ""
    /\ UNCHANGED <<isInitiator, clientRoomId, pendingFile, connectionState,
                   channelState, timers>>
    /\ UNCHANGED signalVars
    /\ UNCHANGED nonPeerVars

\* The peers the server names to the page, and how many timeouts of
\* createOffer the model lets wait at a time.
PeerIds == {"p1", "p2"}
MaxOfferTimers == 2

\* socket.on('peer-join-request') of app.js: the sender's page shows the
\* connection prompt for the peer, in place of the prompt it showed before
\* (ui.showConnectionPrompt replaces the listeners of both buttons).
PeerJoinRequest(peerId) ==
    /\ clientRoomId # "null"
    /\ ~Unloading
    /\ isInitiator
    /\ status' = "Peer wants to connect..."
    /\ promptPeerId' = peerId
    /\ errorShown' = ""
    /\ UNCHANGED <<offerCreatedForRoom, lastJoinedPeerId, pendingAcceptedPeerId,
                   offerTimers>>
    /\ UNCHANGED <<isInitiator, clientRoomId, pendingFile, lifecycle,
                   connectionState, channelState, timers>>
    /\ UNCHANGED <<signalVars, serverVars, rateVars, xferVars>>

\* The user accepts the peer of the prompt: pendingAcceptedPeerId is set and
\* peer-accepted goes to the server.
AcceptPeer ==
    /\ promptPeerId # NoPeerId
    /\ pendingAcceptedPeerId' = promptPeerId
    /\ promptPeerId' = NoPeerId
    /\ status' = "Accepted. Connecting..."
    /\ errorShown' = ""
    /\ UNCHANGED <<offerCreatedForRoom, lastJoinedPeerId, offerTimers>>
    /\ UNCHANGED <<isInitiator, clientRoomId, pendingFile, lifecycle,
                   connectionState, channelState, timers>>
    /\ UNCHANGED <<signalVars, serverVars, rateVars, xferVars>>

\* The user rejects the peer of the prompt: peer-rejected goes to the server.
RejectPeer ==
    /\ promptPeerId # NoPeerId
    /\ promptPeerId' = NoPeerId
    /\ errorShown' = ""
    /\ UNCHANGED <<offerCreatedForRoom, lastJoinedPeerId, pendingAcceptedPeerId,
                   offerTimers>>
    /\ UNCHANGED <<isInitiator, clientRoomId, pendingFile, lifecycle,
                   connectionState, channelState, status, timers>>
    /\ UNCHANGED <<signalVars, serverVars, rateVars, xferVars>>

\* const shouldCreateOffer = isExpectedApprovedPeer || isDirectJoinOrRestore
shouldCreateOffer(peerId) ==
    \/ pendingAcceptedPeerId # NoPeerId /\ peerId = pendingAcceptedPeerId
    \/ pendingAcceptedPeerId = NoPeerId

\* The offer guard after the test of the peer id: a peer other than the last
\* one clears it.
GuardFor(peerId) ==
    IF peerId # lastJoinedPeerId THEN "null" ELSE offerCreatedForRoom

\* socket.on('peer-joined') of app.js with the peer the event names.  The
\* server sends it for a peer the sender has accepted (peer-accepted) and for
\* a peer that has joined the room by join-room.
PeerJoinedFrom(peerId) ==
    /\ clientRoomId # "null"
    /\ ~Unloading
    /\ IF isInitiator
       THEN /\ lastJoinedPeerId' = peerId
            /\ lifecycle' = [lifecycle EXCEPT !.hasRemotePeer = TRUE]
            /\ IF shouldCreateOffer(peerId) /\ GuardFor(peerId) # clientRoomId
               THEN /\ offerTimers < MaxOfferTimers
                    /\ offerCreatedForRoom' = clientRoomId
                    /\ pendingAcceptedPeerId' = NoPeerId
                    /\ status' = "Peer joined! Creating offer..."
                    /\ offerTimers' = offerTimers + 1
               ELSE /\ offerCreatedForRoom' = GuardFor(peerId)
                    /\ status' = "Peer joined!"
                    /\ UNCHANGED <<pendingAcceptedPeerId, offerTimers>>
       ELSE /\ status' = "Connected. Receiving..."
            /\ UNCHANGED <<lifecycle, offerCreatedForRoom, lastJoinedPeerId,
                           pendingAcceptedPeerId, offerTimers>>
    /\ errorShown' = ""
    /\ UNCHANGED promptPeerId
    /\ UNCHANGED <<isInitiator, clientRoomId, pendingFile, connectionState,
                   channelState, timers>>
    /\ UNCHANGED <<signalVars, serverVars, rateVars, xferVars>>

\* A timeout of 600 ms set by the peer-joined handler fires and createOffer
\* runs; the offer itself and the event that carries it are not part of the
\* state.
OfferTimerFires ==
    /\ offerTimers > 0
    /\ offerTimers' = offerTimers - 1
    /\ UNCHANGED <<offerCreatedForRoom, lastJoinedPeerId, pendingAcceptedPeerId,
                   promptPeerId>>
    /\ UNCHANGED <<peerVars, serverVars, rateVars, xferVars>>

\* The connection states the browser reports one after another.
NextStates(state) ==
    CASE state = "new"          -> {"connecting"}
      [] state = "connecting"   -> {"connected", "failed"}
      [] state = "connected"    -> {"disconnected", "failed"}
      [] state = "disconnected" -> {"connected", "failed"}
      [] OTHER                  -> {}

\* The file the restart is saved with, left out.
SavedFileNone == NoFile

\* const savedFile = manager.pendingFile
SavedFile == pendingFile

\* The restart of the sender for the next peer is scheduled: the flag, and
\* the timer with the room and the file saved for it.
ScheduleRestart(lc) ==
    [lc EXCEPT !.restartingForPeer = TRUE,
               !.restartTimer = <<[roomId |-> clientRoomId, file |-> SavedFile,
                                   delay |-> RestartDelayMs]>>]

\* The restart is scheduled whatever the flag says.
MayRestartAlways(lc) == TRUE

\* !manager.lifecycle.restartingForPeer
MayRestart(lc) == ~lc.restartingForPeer

\* peerConnection.onconnectionstatechange.  hidden is document.hidden.
ConnectionStateChanges(state, hidden) ==
    /\ peerConnection
    /\ state \in NextStates(connectionState)
    /\ connectionState' = state
    /\ CASE state = "connected" ->
              /\ lifecycle' = [lifecycle EXCEPT !.everConnected = TRUE,
                                                !.disconnectTimer = FALSE]
              /\ status' = "Connected"
              /\ errorShown' = ""
              /\ UNCHANGED timers
         [] state = "failed" ->
              IF lifecycle.intentionalClose \/ lifecycle.transferComplete
              THEN /\ errorShown' = ""
                   /\ UNCHANGED <<lifecycle, status, timers>>
              ELSE IF lifecycle.everConnected
              THEN /\ status' = "Peer disconnected"
                   /\ IF isInitiator /\ MayRestart(lifecycle)
                      THEN /\ lifecycle' = ScheduleRestart(lifecycle)
                           /\ timers' = Append(timers,
                                               [kind |-> "restart", stale |-> FALSE,
                                                roomId |-> clientRoomId,
                                                file |-> SavedFile,
                                                delay |-> RestartDelayMs])
                           /\ Len(timers') <= MaxTimers
                      ELSE UNCHANGED <<lifecycle, timers>>
                   /\ errorShown' = ""
              ELSE \* logConnectionFailure and the error dialog
                   /\ errorShown' = "Connection failed"
                   /\ UNCHANGED <<lifecycle, status, timers>>
         [] state = "disconnected" ->
              /\ IF lifecycle.intentionalClose \/ lifecycle.transferComplete \/ hidden
                 THEN /\ status' = "Peer disconnected"
                      /\ UNCHANGED lifecycle
                 ELSE IF ~lifecycle.disconnectTimer
                 THEN /\ status' = "Connection lost..."
                      /\ lifecycle' = [lifecycle EXCEPT !.disconnectTimer = TRUE]
                 ELSE UNCHANGED <<lifecycle, status>>
              /\ errorShown' = ""
              /\ UNCHANGED timers
         [] OTHER -> /\ errorShown' = ""
                     /\ UNCHANGED <<lifecycle, status, timers>>
    /\ UNCHANGED <<isInitiator, clientRoomId, pendingFile, channelState>>
    /\ UNCHANGED signalVars
    /\ UNCHANGED nonPeerVars

\* The error is shown whatever the state is by then.
StillDisconnectedUntested == TRUE

\* current === 'disconnected' && !intentionalClose && !transferComplete
StillDisconnected ==
    /\ connectionState = "disconnected"
    /\ ~lifecycle.intentionalClose
    /\ ~lifecycle.transferComplete

\* The 4 s disconnect timer fires: an error is shown if the connection is
\* still disconnected.
DisconnectTimerFires ==
    /\ lifecycle.disconnectTimer
    /\ lifecycle' = [lifecycle EXCEPT !.disconnectTimer = FALSE]
    /\ errorShown' = IF StillDisconnected
                     THEN "Connection disconnected"
                     ELSE ""
    /\ UNCHANGED <<isInitiator, clientRoomId, pendingFile, connectionState,
                   channelState, status, timers>>
    /\ UNCHANGED signalVars
    /\ UNCHANGED nonPeerVars

\* peerConnection.ondatachannel on the receiver: the sender's channel, and
\* setupDataChannel with its open timeout.
DataChannelArrives ==
    /\ peerConnection
    /\ ~isInitiator
    /\ channelState = "none"
    /\ connectionState \in {"connecting", "connected"}
    /\ channelState' = "connecting"
    /\ timers' = Append(timers, OpenTimer)
    /\ Len(timers') <= MaxTimers
    /\ errorShown' = ""
    /\ UNCHANGED <<isInitiator, clientRoomId, pendingFile, lifecycle, connectionState,
                   status>>
    /\ UNCHANGED signalVars
    /\ UNCHANGED nonPeerVars

\* The timeout takes no sender to be waiting.
WaitingForPeerNever == FALSE

\* manager.isInitiator && !manager.lifecycle?.hasRemotePeer: the sender is
\* still waiting for a peer to join, which is no failure.
WaitingForPeer == isInitiator /\ ~lifecycle.hasRemotePeer

\* The open timeout of a channel fires after 30 s.  A timeout that is still
\* set belongs to a channel that has not opened: the manager's channel
\* before its onopen, or a channel that was reset.
OpenTimeoutFires(i) ==
    /\ i \in DOMAIN timers
    /\ timers[i].kind = "open"
    /\ timers' = WithoutTimer(timers, i)
    /\ IF WaitingForPeer
       THEN /\ status' = "Waiting for peer to join..."
            /\ errorShown' = ""
       ELSE /\ errorShown' =
                   IF connectionState = "failed"
                   THEN "Could not connect to peer"
                   ELSE "Data channel opened but transfer preparation failed"
            /\ UNCHANGED status
    /\ UNCHANGED <<isInitiator, clientRoomId, pendingFile, lifecycle, connectionState,
                   channelState>>
    /\ UNCHANGED signalVars
    /\ UNCHANGED nonPeerVars

\* channel.onopen: the open timeout is cleared and the transfer of the
\* pending file starts with sendFile.
ChannelOpens ==
    /\ channelState = "connecting"
    /\ connectionState = "connected"
    /\ channelState' = "open"
    /\ timers' = WithoutOpenTimer(timers)
    /\ IF pendingFile # NoFile
       THEN SendFile
       ELSE /\ errorShown' = ""
            /\ UNCHANGED <<xferVars, lifecycle>>
    /\ UNCHANGED <<isInitiator, clientRoomId, pendingFile, connectionState, status>>
    /\ UNCHANGED signalVars
    /\ UNCHANGED <<serverVars, rateVars, appVars>>

\* The receiver has completed the file: lifecycle.transferComplete is set.
TransferCompletes ==
    /\ ~isInitiator
    /\ channelState = "open"
    /\ ~lifecycle.transferComplete
    /\ lifecycle' = [lifecycle EXCEPT !.transferComplete = TRUE]
    /\ errorShown' = ""
    /\ UNCHANGED <<isInitiator, clientRoomId, pendingFile, connectionState,
                   channelState, status, timers>>
    /\ UNCHANGED signalVars
    /\ UNCHANGED nonPeerVars

\* channel.onclose
ChannelCloses ==
    /\ channelState \in {"connecting", "open"}
    /\ connectionState \in {"connected", "disconnected", "failed"}
    /\ channelState' = "closed"
    /\ status' = "Connection closed"
    /\ IF /\ isInitiator
          /\ lifecycle.everConnected
          /\ ~lifecycle.transferComplete
          /\ MayRestart(lifecycle)
       THEN /\ lifecycle' = ScheduleRestart(lifecycle)
            /\ timers' = Append(WithoutOpenTimer(timers),
                                [kind |-> "restart", stale |-> FALSE,
                                 roomId |-> clientRoomId, file |-> SavedFile,
                                 delay |-> RestartDelayMs])
            /\ Len(timers') <= MaxTimers
       ELSE /\ timers' = WithoutOpenTimer(timers)
            /\ UNCHANGED lifecycle
    /\ errorShown' = ""
    /\ UNCHANGED <<isInitiator, clientRoomId, pendingFile, connectionState>>
    /\ UNCHANGED signalVars
    /\ UNCHANGED nonPeerVars

\* The restart timer i fires: the handle is dropped, the connection is reset
\* and set up again as initiator with the room and the file that were saved.
RestartTimerFiresAt(i) ==
    /\ i \in DOMAIN timers
    /\ timers[i].kind = "restart"
    /\ setupPeerConnectionWith(AfterReset(WithoutTimer(timers, i)), NoTimer,
                               timers[i].roomId, TRUE, timers[i].file)
    /\ UNCHANGED appVars

RestartTimerFires == \E i \in DOMAIN timers : RestartTimerFiresAt(i)

\* beforeunload: markIntentionalClose, then cleanup, which resets the
\* connection.
Cleanup ==
    /\ peerConnection
    /\ lifecycle' = resetConnection(lifecycle)
    /\ timers' = AfterReset(timers)
    /\ peerConnection' = FALSE
    /\ connectionState' = "none"
    /\ channelState' = "none"
    /\ errorShown' = ""
    /\ UNCHANGED <<isInitiator, clientRoomId, pendingFile, status>>
    /\ UNCHANGED <<remoteDescription, remoteCandidateQueue, applied, described,
                   arrived, queuedEver>>
    /\ UNCHANGED appVars
    /\ ChannelDropped

\* An offer or an answer arrives: handleSignal up to the await of
\* setRemoteDescription.  Without a peer connection the signal is dropped.
DescriptionArrives(type) ==
    /\ described = "idle"
    /\ described' = IF peerConnection THEN "setting" ELSE "dropped"
    /\ UNCHANGED <<peerConnection, remoteDescription, remoteCandidateQueue,
                   applied, arrived, queuedEver>>
    /\ UNCHANGED restartVars
    /\ UNCHANGED nonPeerVars

\* flushRemoteCandidateQueue from the head of its while loop to its next
\* await: the oldest candidate is shifted off the queue and passed to
\* addIceCandidate; with the queue empty the flush is over.
FlushStep(queue, log) ==
    IF queue = << >>
    THEN [queue |-> queue, applied |-> log, described |-> "done"]
    ELSE [queue |-> Tail(queue), applied |-> Append(log, Head(queue)),
          described |-> "flushing"]

\* setRemoteDescription settles.  Resolved, the remote description is set
\* and the flush starts; rejected, the handler reports the error and ends.
SetRemoteDescriptionSettles(resolved) ==
    /\ described = "setting"
    /\ IF resolved
       THEN LET r == FlushStep(remoteCandidateQueue, applied)
            IN  /\ remoteDescription' = TRUE
                /\ remoteCandidateQueue' = r.queue
                /\ applied' = r.applied
                /\ described' = r.described
       ELSE /\ described' = "failed"
            /\ UNCHANGED <<remoteDescription, remoteCandidateQueue, applied>>
    /\ UNCHANGED <<peerConnection, arrived, queuedEver>>
    /\ UNCHANGED restartVars
    /\ UNCHANGED nonPeerVars

\* addIceCandidate of a queued candidate settles, resolved or rejected (a
\* rejection is logged), and the flush goes round its loop.
QueuedCandidateSettles ==
    /\ described = "flushing"
    /\ LET r == FlushStep(remoteCandidateQueue, applied)
       IN  /\ remoteCandidateQueue' = r.queue
           /\ applied' = r.applied
           /\ described' = r.described
    /\ UNCHANGED <<peerConnection, remoteDescription, arrived, queuedEver>>
    /\ UNCHANGED restartVars
    /\ UNCHANGED nonPeerVars

\* The test of the candidate case answering "apply" whatever the state.
MustQueueNever == FALSE

\* !manager.peerConnection.remoteDescription
MustQueue == ~remoteDescription

\* A candidate arrives: without a peer connection it is dropped, before the
\* remote description it is pushed on the queue, after it it is passed to
\* addIceCandidate.
CandidateArrives ==
    /\ arrived < MaxCandidates
    /\ arrived' = arrived + 1
    /\ IF ~peerConnection
       THEN UNCHANGED <<remoteCandidateQueue, applied, queuedEver>>
       ELSE IF MustQueue
       THEN /\ remoteCandidateQueue' = Append(remoteCandidateQueue, arrived + 1)
            /\ queuedEver' = queuedEver \cup {arrived + 1}
            /\ UNCHANGED applied
       ELSE /\ applied' = Append(applied, arrived + 1)
            /\ UNCHANGED <<remoteCandidateQueue, queuedEver>>
    /\ UNCHANGED <<peerConnection, remoteDescription, described>>
    /\ UNCHANGED restartVars
    /\ UNCHANGED nonPeerVars

-----------------------------------------------------------------------------
(* The specifications *)

Init == ServerInit /\ RateInit /\ XferIdle /\ PeerInit

Next ==
    \/ \E s \in Sockets : Connect(s)
    \/ \E s \in Sockets, r \in RoomIdInputs, ok \in BOOLEAN : CreateRoom(s, r, ok)
    \/ \E s \in Sockets, r \in RoomIdInputs, ok \in BOOLEAN : JoinRoom(s, r, ok)
    \/ \E s \in Sockets, r \in RoomIdInputs, ok \in BOOLEAN : RequestJoin(s, r, ok)
    \/ \E s \in Sockets, r \in RoomIdInputs, p \in PeerIdInputs, ok \in BOOLEAN :
           PeerAccepted(s, r, p, ok)
    \/ \E s \in Sockets, r \in RoomIdInputs, p \in PeerIdInputs, ok \in BOOLEAN :
           PeerRejected(s, r, p, ok)
    \/ \E s \in Sockets, e \in SignalEvents, r \in RoomIdInputs,
          len \in PayloadLens, ok \in BOOLEAN : Relay(s, e, r, len, ok)
    \/ \E s \in Sockets : Disconnect(s)
    \/ TtlSweep

Spec == Init /\ [][Next]_vars

\* The handlers with every valid room id as argument, for all sockets but
\* the last, and without the sweep.
RoomSockets == 1..(NumSockets - 1)

NextRooms ==
    \/ \E s \in RoomSockets : Connect(s)
    \/ \E s \in RoomSockets, r \in ValidRoomIds, ok \in BOOLEAN : CreateRoom(s, r, ok)
    \/ \E s \in RoomSockets, r \in ValidRoomIds, ok \in BOOLEAN : JoinRoom(s, r, ok)
    \/ \E s \in RoomSockets, r \in ValidRoomIds, ok \in BOOLEAN : RequestJoin(s, r, ok)
    \/ \E s \in RoomSockets, r \in ValidRoomIds, p \in RoomSockets, ok \in BOOLEAN :
           PeerAccepted(s, r, p, ok)
    \/ \E s \in RoomSockets, r \in ValidRoomIds, p \in RoomSockets, ok \in BOOLEAN :
           PeerRejected(s, r, p, ok)
    \/ \E s \in RoomSockets, e \in SignalEvents, r \in ValidRoomIds,
          len \in PayloadLens, ok \in BOOLEAN : Relay(s, e, r, len, ok)
    \/ \E s \in RoomSockets : Disconnect(s)

SpecRooms == Init /\ [][NextRooms]_vars

NextRate ==
    \/ RateLimitedEvent
    \/ ExemptEvent
    \/ \E d \in ClockSteps : ClockAdvance(d)

SpecRate == Init /\ [][NextRate]_vars

\* The sender with its peer connection connected to a receiver that has
\* joined, and its data channel about to open.
SenderReady ==
    /\ peerConnection = TRUE
    /\ remoteDescription = TRUE
    /\ remoteCandidateQueue = << >>
    /\ applied = << >>
    /\ described = "done"
    /\ arrived = 0
    /\ queuedEver = {}
    /\ isInitiator = TRUE
    /\ clientRoomId = "r1"
    /\ pendingFile = "f1"
    /\ lifecycle = [intentionalClose |-> FALSE, transferComplete |-> FALSE,
                    hasRemotePeer |-> TRUE,
                    everConnected |-> TRUE, restartingForPeer |-> FALSE,
                    restartTimer |-> NoTimer, disconnectTimer |-> FALSE]
    /\ connectionState = "connected"
    /\ channelState = "connecting"
    /\ status = "Connected"
    /\ timers = <<OpenTimer>>
    /\ errorShown = ""

InitXfer == ServerInit /\ RateInit /\ XferInit /\ SenderReady /\ AppInit

NextXfer ==
    \/ ChannelOpens
    \/ SendChunk
    \/ YieldDone
    \/ OnBufferedAmountLow
    \/ Drain
    \/ \E granted \in BOOLEAN : PickerSettles(granted)

SpecXfer == InitXfer /\ [][NextXfer]_vars

\* The transfer over a channel that can damage chunk frames.
NextNoisy ==
    \/ NextXfer
    \/ \E kind \in Damages : DrainDamaged(kind)

SpecNoisy == InitXfer /\ [][NextNoisy]_vars

NextSignal ==
    \/ SetupPeerConnection
    \/ \E type \in {"offer", "answer"} : DescriptionArrives(type)
    \/ \E resolved \in BOOLEAN : SetRemoteDescriptionSettles(resolved)
    \/ QueuedCandidateSettles
    \/ CandidateArrives

SpecSignal == Init /\ [][NextSignal]_vars

\* The signaling of a page whose application sets up a connection again
\* while candidates arrive: a receiver let in again, a sender that picks
\* another file.
NextResetup ==
    \/ NextSignal
    \/ \E i \in SetupInputs : AppSetup(i[1], i[2], i[3])

SpecResetup == Init /\ [][NextResetup]_vars

\* The page of a client whose files are SessionFileSize bytes long and go in
\* chunks of 4 bytes, with a high-water mark the file never reaches: the
\* buffer of the channel empties in SpecXfer, not here.
SessionFileSize == 4

SessionConfig ==
    [(CHOOSE c \in SmallChunkConfigs : c.impl = "sender.js")
        EXCEPT !.bufferHighWater = 200]

InitRestart ==
    /\ ServerInit /\ RateInit /\ PeerInit
    /\ XferStart(SessionConfig, FileOfSize(SessionFileSize))

NextRestart ==
    \/ \E i \in SetupInputs : AppSetup(i[1], i[2], i[3])
    \/ SocketConnects
    \/ PeerJoined
    \/ \E state \in {"connecting", "connected", "disconnected", "failed"},
          hidden \in BOOLEAN : ConnectionStateChanges(state, hidden)
    \/ DisconnectTimerFires
    \/ DataChannelArrives
    \/ \E i \in 1..MaxTimers : OpenTimeoutFires(i)
    \/ ChannelOpens
    \/ TransferCompletes
    \/ ChannelCloses
    \/ RestartTimerFires
    \/ Cleanup
    \/ SendChunk
    \/ YieldDone
    \/ \E i \in 1..MaxSuspended : EarlierSendChunk(i)
    \/ \E i \in 1..MaxSuspended : EarlierYieldDone(i)

SpecRestart == InitRestart /\ [][NextRestart]_vars

\* The batch size and the yield time of continueSendFile under every
\* sequence of observations of bufferedAmount at the batch boundaries, of
\* re-entries of the loop (a resume after a pause, the next transfer) and of
\* completions, which save the two values in sendState.
BufferedObservations ==
    {0, targetBuffer \div 4 - 1, targetBuffer \div 4, targetBuffer, targetBuffer + 1}

LoopEntered ==
    /\ loop.pc \in {"idle", "head", "done"}
    /\ loop' = EnterLoop(sendState, "sendFile")
    /\ UNCHANGED <<config, file, sendState, others, channel, lowEvents,
                   receiveState, sink, delivered>>
    /\ UNCHANGED nonXferVars

BatchEnds(buffered) ==
    /\ loop.pc = "head"
    /\ loop' = Adapt(loop, buffered)
    /\ UNCHANGED <<config, file, sendState, others, channel, lowEvents,
                   receiveState, sink, delivered>>
    /\ UNCHANGED nonXferVars

LoopFinished ==
    /\ loop.pc = "head"
    /\ sendState' = Finish(sendState, loop).ss
    /\ loop' = Finish(sendState, loop).loop
    /\ UNCHANGED <<config, file, others, channel, lowEvents, receiveState, sink,
                   delivered>>
    /\ UNCHANGED nonXferVars

NextAdapt ==
    \/ LoopEntered
    \/ \E buffered \in BufferedObservations : BatchEnds(buffered)
    \/ LoopFinished

SpecAdapt == InitRestart /\ [][NextAdapt]_vars

\* The sender's page and the peers that ask to join and join: the file is
\* picked, the prompt is answered, peer-joined arrives, the offer is made.
NextOffer ==
    \/ \E i \in SetupInputs : AppSetup(i[1], i[2], i[3])
    \/ \E p \in PeerIds : PeerJoinRequest(p)
    \/ AcceptPeer
    \/ RejectPeer
    \/ \E p \in PeerIds : PeerJoinedFrom(p)
    \/ OfferTimerFires

SpecOffer == InitRestart /\ [][NextOffer]_vars

\* A timer that is set fires.
RestartFairness == WF_vars(RestartTimerFires)

SpecRestartFair == InitRestart /\ [][NextRestart]_vars /\ RestartFairness

\* The steps that need no user: the event loop runs every task that is
\* ready, a timer fires, a file read resolves, and an open channel sends what
\* is buffered.  Nothing makes the user answer the save-file picker.
EventLoopStep ==
    \/ ChannelOpens
    \/ SendChunk
    \/ YieldDone
    \/ OnBufferedAmountLow
    \/ Drain

\* A transfer never returns to a state it has left, so every behaviour ends;
\* fairness says that it does not end while such a step is possible.
XferFairness == WF_vars(EventLoopStep)

SpecXferFair == InitXfer /\ [][NextXfer]_vars /\ XferFairness

-----------------------------------------------------------------------------
(* Properties of the signaling server, stated for Spec *)

Connected == {s \in Sockets : sockState[s] = "connected"}

\* C1: in every reachable state every room of the registry has at most
\* MAX_PEERS_PER_ROOM members, and every member is a connected socket.
C1_RegistryBounded ==
    \A r \in DOMAIN roomRegistry :
        /\ Cardinality(roomRegistry[r].peers) <= MaxPeersPerRoom
        /\ roomRegistry[r].peers \subseteq Connected

\* A full room has just turned a third connected socket away.
C1_Witness ==
    \E r \in DOMAIN roomRegistry, s \in Connected :
        /\ Cardinality(roomRegistry[r].peers) = MaxPeersPerRoom
        /\ s \notin roomRegistry[r].peers
        /\ emitted = {AppError(s, "Room is full")}

\* C19: every offer, answer or candidate envelope the server relays has, as
\* it is relayed, a serialized length of at most MaxSignalPayloadBytes.
C19_RelayedEnvelopeWithinLimit ==
    \A m \in emitted :
        m.ev \in SignalEvents => m.len <= MaxSignalPayloadBytes

\* C20: create-room for a room id that is in the registry is answered with
\* one app-error to the caller, leaves the registry (the room's age and peer
\* set included) as it was, and puts the caller in no room.
C20_CreateExistingRoomIsRejected ==
    [][\A r \in ValidRoomIds, s \in Sockets, ok \in BOOLEAN :
          (r \in DOMAIN roomRegistry /\ CreateRoom(s, r, ok)) =>
              /\ \E text \in {"Room already exists", "Too many requests"} :
                     emitted' = {AppError(s, text)}
              /\ roomRegistry' = roomRegistry
              /\ socketRooms' = socketRooms]_vars

C20_Witness ==
    \E r \in ValidRoomIds, s \in Sockets :
        /\ r \in DOMAIN roomRegistry /\ s \notin roomRegistry[r].peers
        /\ emitted = {AppError(s, "Room already exists")}

\* C21: an offer, answer or candidate is relayed only from a member of the
\* envelope's room; a relayed envelope carries the sender's id in from, goes
\* to every other member of the room and never back to the sender.
C21_RelayFromMemberToOthers ==
    \A m \in emitted :
        m.ev \in SignalEvents =>
            /\ m.from \in Peers(m.roomId)
            /\ m.to # m.from
            /\ \A p \in Peers(m.roomId) \ {m.from} :
                   \E x \in emitted : x.to = p /\ x.ev = m.ev /\ x.from = m.from

\* C22: when the disconnect of socket s has been processed, s is in no
\* room's peer set, no room of the registry has an empty peer set, a room s
\* was in with another peer is kept without s, s has no pending join and no
\* entry in socketRateLimits, and the rooms s was not in are as they were.
C22_DisconnectLeavesNoTrace ==
    [][\A s \in Sockets :
          Disconnect(s) =>
              /\ \A r \in DOMAIN roomRegistry' :
                     /\ s \notin roomRegistry'[r].peers
                     /\ roomRegistry'[r].peers # {}
              /\ \A r \in DOMAIN roomRegistry :
                     /\ roomRegistry[r].peers \ {s} # {} => r \in DOMAIN roomRegistry'
                     /\ s \notin roomRegistry[r].peers =>
                            roomRegistry'[r] = roomRegistry[r]
              /\ s \notin DOMAIN pendingJoinRequests'
              /\ s \notin socketRateLimits']_vars

\* A socket's disconnect has been processed: a room is left to one other
\* peer, the other room id is in the registry no more, and another socket
\* still has its rate-limit entry.
C22_Witness ==
    \E s \in Sockets, r \in ValidRoomIds :
        /\ sockState[s] = "closed"
        /\ socketRooms[s] = {}
        /\ HasRoom(r) /\ Cardinality(Peers(r)) = 1
        /\ \E q \in ValidRoomIds : ~HasRoom(q)
        /\ socketRateLimits # {}

\* The step emits one app-error with the given text, to socket s, leaves s
\* and every other socket connected as it was, and changes neither the
\* registry nor the pending joins.
OnlyRejects(s, text) ==
    /\ emitted' = {AppError(s, text)}
    /\ sockState' = sockState
    /\ roomRegistry' = roomRegistry
    /\ pendingJoinRequests' = pendingJoinRequests

\* C23: an event refused by the rate limiter, and an offer, answer or
\* candidate refused for its size, produce exactly one app-error, to the
\* socket that sent the event; the socket is not disconnected, the registry
\* and the pending joins stay as they were.
C23_RejectionIsOneAppError ==
    [][\A s \in Sockets, r \in ValidRoomIds :
          /\ (\/ CreateRoom(s, r, FALSE)
              \/ JoinRoom(s, r, FALSE)
              \/ RequestJoin(s, r, FALSE)
              \/ \E p \in PeerIdInputs : PeerAccepted(s, r, p, FALSE)
              \/ \E p \in PeerIdInputs : PeerRejected(s, r, p, FALSE)
              \/ Relay(s, "candidate", r, MaxSignalPayloadBytes, FALSE))
                 => OnlyRejects(s, "Too many requests")
          /\ (\E e \in SignalEvents, ok \in BOOLEAN :
                  Relay(s, e, r, MaxSignalPayloadBytes + 1, ok))
                 => OnlyRejects(s, "Payload too large")]_vars

\* A member of a room that has a pending join has been refused by the rate
\* limiter.
C23_Witness ==
    \E s \in Sockets, r \in ValidRoomIds :
        /\ emitted = {AppError(s, "Too many requests")}
        /\ s \in Peers(r)
        /\ \E p \in Sockets : PendingRoom(p) = r

\* The step emits an app-error to socket s.
AppErrorTo(s) == \E m \in emitted' : m.ev = "app-error" /\ m.to = s

\* C24: an event that passes the rate limiter and fails validation (invalid
\* room id or peer id, sender not a member, room missing, room full, no
\* matching pending join) makes the server emit an app-error to its sender,
\* whichever of the handlers it is.
C24_ValidationFailureIsAppError ==
    [][\A s \in Sockets, r \in RoomIdInputs :
          /\ (CreateRoom(s, r, TRUE) /\ ~isValidRoomId(r)) => AppErrorTo(s)
          /\ (JoinRoom(s, r, TRUE)
                /\ (~isValidRoomId(r) \/ ~HasRoom(r) \/ RoomFull(r)))
                 => AppErrorTo(s)
          /\ (RequestJoin(s, r, TRUE) /\ (~isValidRoomId(r) \/ ~HasRoom(r)))
                 => AppErrorTo(s)
          /\ \A p \in PeerIdInputs :
               /\ (PeerAccepted(s, r, p, TRUE)
                     /\ (\/ ~isValidRoomId(r) \/ p = NoPeer \/ ~inRoom(s, r)
                         \/ ~HasRoom(r) \/ PendingRoom(p) # r \/ RoomFull(r)))
                      => AppErrorTo(s)
               /\ (PeerRejected(s, r, p, TRUE)
                     /\ (\/ ~isValidRoomId(r) \/ p = NoPeer \/ ~inRoom(s, r)
                         \/ PendingRoom(p) # r))
                      => AppErrorTo(s)
          /\ \A e \in SignalEvents :
               (Relay(s, e, r, MaxSignalPayloadBytes, TRUE)
                  /\ (~isValidRoomId(r) \/ ~inRoom(s, r)))
                   => AppErrorTo(s)]_vars

\* C25: no socket is at once in a room's peer set and pending for that room:
\* a join-room that succeeds removes the caller's pending join for the room.
C25_MemberIsNotPending ==
    \A p \in Sockets, r \in ValidRoomIds :
        ~(p \in Peers(r) /\ PendingRoom(p) = r)

\* C2: every offer, answer or candidate envelope the server delivers for
\* room R goes to a peer that is a member of R in the registry at that
\* moment, whatever the interleaving of the handlers and the TTL sweep.
C2_RelayOnlyToRegistryMembers ==
    \A m \in emitted :
        m.ev \in SignalEvents => m.to \in Peers(m.roomId)

\* C3: a socket that did not create a room becomes a member of it only by
\* a step that consumes its pending join request for that room, which is what
\* an accepted peer-accepted does.
C3_AdmissionNeedsApproval ==
    [][\A r \in (DOMAIN roomRegistry) \cap (DOMAIN roomRegistry') :
          \A p \in roomRegistry'[r].peers \ roomRegistry[r].peers :
              /\ PendingRoom(p) = r
              /\ p \notin DOMAIN pendingJoinRequests']_vars

\* C4: at no time do more than two connected sockets belong to the same
\* room for the membership check (inRoom) and for relaying (socket.to),
\* also after a TTL sweep and a new create-room with the same id.
C4_TwoOccupants ==
    \A r \in ValidRoomIds : Cardinality(Adapter(r) \cap Connected) <= MaxPeersPerRoom

\* A third peer: a connected socket outside room r's peer set.
ThirdPeer(p, r) == p \in Connected /\ p \notin Peers(r)

FullRoom(r) == HasRoom(r) /\ Cardinality(Peers(r)) = MaxPeersPerRoom

\* C5 (as the code behaves): while room R has two peers no step adds a third
\* one; a peer-accepted from a member that passes the rate limiter and names
\* a third peer leaves the registry alone and emits "Room is full" to the
\* sender and to the third peer when that peer has a pending join for R, and
\* "No pending request for this peer" to the sender alone when it has none.
C5_FullRoomKeepsThirdPeerOut ==
    [][\A r \in ValidRoomIds : FullRoom(r) =>
          /\ HasRoom(r)' => Peers(r)' \subseteq Peers(r)
          /\ \A s \in Peers(r), p \in Sockets :
                (ThirdPeer(p, r) /\ PeerAccepted(s, r, p, TRUE)) =>
                    /\ roomRegistry' = roomRegistry
                    /\ emitted' =
                         IF PendingRoom(p) = r
                         THEN {AppError(s, "Room is full"),
                               AppError(p, "Room is full")}
                         ELSE {AppError(s, "No pending request for this peer")}]_vars

\* Both branches have been taken against a full room: the third peer with a
\* pending join was told, and so was the sender.
C5_Witness ==
    \E r \in ValidRoomIds, s \in Sockets, p \in Sockets :
        /\ FullRoom(r) /\ s \in Peers(r) /\ ThirdPeer(p, r)
        /\ PendingRoom(p) = r
        /\ emitted = {AppError(s, "Room is full"), AppError(p, "Room is full")}

\* C5 as stated: with two peers in R, a peer-accepted from the sender for a
\* third peer that has no pending join for R emits an app-error to both the
\* sender and that third peer, and the peer set keeps its size.
C5_ErrorToBothWithoutPending ==
    [][\A r \in ValidRoomIds : FullRoom(r) =>
          \A s \in Peers(r), p \in Sockets :
              (ThirdPeer(p, r) /\ PendingRoom(p) # r /\ PeerAccepted(s, r, p, TRUE)) =>
                  /\ \E m \in emitted' : m.ev = "app-error" /\ m.to = s
                  /\ \E m \in emitted' : m.ev = "app-error" /\ m.to = p
                  /\ Cardinality(Peers(r)') = MaxPeersPerRoom]_vars


RoomsOf(s) == {r \in DOMAIN roomRegistry : s \in roomRegistry[r].peers}

\* C17: in every reachable state each socket is in the peer set of at most
\* one room of the registry.
C17_AtMostOneRoomPerPeer ==
    \A s \in Sockets : Cardinality(RoomsOf(s)) <= 1

-----------------------------------------------------------------------------
(* Properties of the rate limiter, stated for SpecRate *)

\* The events accepted in the 1 s interval that ends now, both ends included.
\* The clock visits every instant at which an event arrives, so an interval
\* that ends between two instants holds no more than the one ending at the
\* earlier instant.
AcceptedLastSecond == AcceptedIn(rlNow - RATE_LIMIT_WINDOW, rlNow)

-----------------------------------------------------------------------------
(* Properties of the file transfer, stated for SpecXfer and SpecXferFair *)

\* C7: whenever the receiver reports a transfer complete, what it delivered
\* has the length of the sender's file and the same byte at every position,
\* on the in-memory path and on the streaming path.
C7_DeliveredEqualsSource ==
    delivered.transferComplete => delivered.bytes = file

\* C8: for a zero-byte file the metadata frame is sent, no chunk frame is,
\* and the receiver's completion fires with no binary frame arriving.
C8_ZeroByteFileCompletes ==
    (Len(file) = 0 /\ loop.pc = "idle") ~>
        (/\ delivered.transferComplete
         /\ receiveState.receivedChunks = 0
         /\ \A i \in 1..Len(channel) : channel[i].type = "string")

\* C9: the receiver has completed exactly when the bytes it received equal
\* the size the metadata announced, also when the number of frames differs
\* from totalChunks.  Stated for the files of at least one byte.
C9_CompleteIffAllBytes ==
    Len(file) > 0 =>
        (delivered.transferComplete <=>
            (receiveState.fileInfo /\ receiveState.receivedSize = receiveState.size))

LowBelowOrAtHigh == bufferedAmountLowThreshold <= highWater

\* C10 (as the code behaves): when bufferLowWater is at most bufferHighWater,
\* a send loop that has paused is re-entered by bufferedamountlow as the
\* transport drains, and the transfer reaches offset = size.
C10_PausedResumesWhenLowAtMostHigh ==
    (sendState.paused /\ LowBelowOrAtHigh) ~> (sendState.offset = Len(file))

\* The loop has paused in mid-transfer and the event that resumes it has fired.
C10_Witness ==
    /\ LowBelowOrAtHigh
    /\ sendState.paused
    /\ sendState.offset > 0
    /\ sendState.offset < Len(file)
    /\ lowEvents > 0

\* C10 as stated: for every configured pair of water marks, a send loop that
\* has paused is re-entered by bufferedamountlow as the transport drains, and
\* the transfer reaches offset = size.
C10_PausedAlwaysResumes ==
    sendState.paused ~> (sendState.offset = Len(file))

OnlyChunkFrames == \A i \in 1..Len(channel) : channel[i].type = "binary"

\* The largest payload a chunk frame can carry: sender.js keeps
\* currentChunkSize at defaultChunkSize, webrtc.js moves it between
\* minChunkSize and maxChunkSize.
LargestChunk ==
    IF config.impl = "sender.js"
    THEN OrDefault(config.defaultChunkSize, DefaultChunkSize)
    ELSE Max(OrDefault(config.defaultChunkSize, DefaultChunkSize),
             OrDefault(config.maxChunkSize, DefaultMaxChunkSize))

\* C11 (as the code behaves): every frame is sent while bufferedAmount is at
\* most the high-water mark, so bufferedAmount is at most the high-water mark
\* plus the frame sent last, and a chunk frame is the chunk's payload plus the
\* 4 bytes of its CRC header.
C11_BufferAtMostHighPlusOneFrame ==
    channel # << >> =>
        LET last == channel[Len(channel)]
        IN  /\ bufferedAmount <= highWater + FrameLen(last)
            /\ last.type = "binary" => FrameLen(last) <= LargestChunk + 4

\* Chunk frames alone fill the buffer to the high-water mark plus one chunk
\* plus the header.
C11_Witness ==
    /\ channel # << >>
    /\ OnlyChunkFrames
    /\ bufferedAmount =
         highWater + OrDefault(config.defaultChunkSize, DefaultChunkSize) + 4

\* C11 as stated: while chunk frames are what the buffer holds, bufferedAmount
\* is at most the high-water mark plus one payload chunk (defaultChunkSize).
C11_BufferAtMostHighPlusChunk ==
    (channel # << >> /\ OnlyChunkFrames /\ config.impl = "sender.js") =>
        bufferedAmount <= highWater + OrDefault(config.defaultChunkSize, DefaultChunkSize)

\* The frames that can arrive when the oldest frame leaves the buffer.
Arriving ==
    IF channel = << >> THEN {}
    ELSE {Head(channel)} \cup
         (IF Head(channel).type = "binary"
          THEN {BinaryFrame(Damage(k, Head(channel).bytes)) : k \in Damages}
          ELSE {})

\* The receiver has stored or counted what arrived.
StoredOrCounted ==
    \/ receiveState'.receivedChunks # receiveState.receivedChunks
    \/ receiveState'.receivedSize # receiveState.receivedSize
    \/ receiveState'.chunks # receiveState.chunks
    \/ sink' # sink

HeaderIsCrcOfPayload(bytes) ==
    /\ Len(bytes) >= 4
    /\ getUint32LE(SubSeq(bytes, 1, 4)) = calculateCRC32(SubSeq(bytes, 5, Len(bytes)))

\* C12: the receiver stores or counts a binary frame only if its first 4
\* bytes, read as a little-endian 32-bit word, are the CRC32 of the rest.
C12_StoredOnlyIfCrcMatches ==
    [][\A f \in Arriving :
          (f.type = "binary" /\ Deliver(f) /\ StoredOrCounted)
              => HeaderIsCrcOfPayload(f.bytes)]_vars

\* A damaged frame has been dropped and an intact one counted.
C12_Witness ==
    /\ receiveState.lastValidationError
    /\ receiveState.receivedChunks > 0

\* C13: a frame whose CRC header does not match its payload advances neither
\* receivedChunks nor receivedSize, stores nothing and sets
\* lastValidationError; the frames behind it stay in the channel, and an
\* intact frame that arrives after such an error is counted with its payload
\* length.
C13_MismatchDropsFrameOnly ==
    [][\A f \in Arriving :
          (f.type = "binary" /\ Len(f.bytes) >= 4 /\ receiveState.fileInfo /\ Deliver(f))
              => IF HeaderIsCrcOfPayload(f.bytes)
                 THEN receiveState.lastValidationError =>
                          /\ receiveState'.receivedChunks = receiveState.receivedChunks + 1
                          /\ receiveState'.receivedSize =
                                 receiveState.receivedSize + Len(f.bytes) - 4
                 ELSE /\ ~StoredOrCounted
                      /\ receiveState'.lastValidationError
                      /\ delivered' = delivered
                      /\ channel' = Tail(channel)]_vars

\* After a dropped frame the counters have moved on with the frames that
\* followed it.
C13_Witness ==
    /\ receiveState.lastValidationError
    /\ receiveState.receivedChunks >= 2

\* C16: a send loop that bufferedamountlow re-enters goes on with the batch
\* size and the yield time that were in effect when it paused.
C16_ResumeKeepsBatchAndYield ==
    [][(OnBufferedAmountLow /\ ShouldResume) =>
           /\ loop'.currentBatchSize = loop.currentBatchSize
           /\ loop'.yieldTimeMs = loop.yieldTimeMs]_vars

-----------------------------------------------------------------------------
(* Properties of the client's signaling, stated for SpecSignal *)

Range(seq) == {seq[i] : i \in 1..Len(seq)}

\* The candidates that arrived while there was a peer connection.
Handled == queuedEver \cup Range(applied) \cup Range(remoteCandidateQueue)

\* C14: a candidate that arrives before the remote description is set waits
\* on the queue and is not passed to addIceCandidate; once
\* setRemoteDescription has resolved the queued candidates are passed to it in
\* the order of their arrival, each once; and once the queue is drained a
\* candidate is passed to it on arrival and never waits on the queue.
C14_QueuedThenAppliedInOrder ==
    /\ ~remoteDescription =>
           /\ applied = << >>
           /\ Range(remoteCandidateQueue) = queuedEver
    /\ \A i, j \in 1..Len(remoteCandidateQueue) :
           i < j => remoteCandidateQueue[i] < remoteCandidateQueue[j]
    /\ \A i, j \in 1..Len(applied) :
           /\ i < j => applied[i] # applied[j]
           /\ (i < j /\ applied[i] \in queuedEver /\ applied[j] \in queuedEver)
                  => applied[i] < applied[j]
    /\ \A i \in 1..Len(applied), j \in 1..Len(remoteCandidateQueue) :
           applied[i] \in queuedEver => applied[i] < remoteCandidateQueue[j]
    /\ Range(remoteCandidateQueue) \cap Range(applied) = {}
    /\ Range(remoteCandidateQueue) \subseteq queuedEver
    /\ described = "done" =>
           /\ remoteCandidateQueue = << >>
           /\ Range(applied) = Handled

\* Two candidates were queued, the queue has been drained, and a later
\* candidate has been applied as well.
C14_Witness ==
    /\ described = "done"
    /\ Cardinality(queuedEver) >= 2
    /\ \E i \in 1..Len(applied) :
           /\ applied[i] \notin queuedEver
           /\ \A q \in queuedEver : \E j \in 1..(i - 1) : applied[j] = q

-----------------------------------------------------------------------------
(* Properties of the peer connection's lifecycle, stated for SpecRestart   *)
(* and SpecRestartFair                                                     *)

\* The sender had a working connection and the transfer is not complete.
PeerCanLeave ==
    /\ isInitiator
    /\ lifecycle.everConnected
    /\ ~lifecycle.transferComplete

\* The browser reports the state failed, or the data channel closes.
PeerLeaves ==
    \/ \E hidden \in BOOLEAN : ConnectionStateChanges("failed", hidden)
    \/ ChannelCloses

RestartScheduled ==
    lifecycle.restartTimer =
        <<[roomId |-> clientRoomId, file |-> pendingFile, delay |-> RestartDelayMs]>>

\* C15: on the initiator with everConnected set and transferComplete not,
\* the state failed or a close of the data channel leaves a timer of 250 ms
\* set for the room and the pending file of that moment; the timer fires
\* with no other step needed, and when it fires the old connection is
\* dropped and a new one is set up as initiator for that room and that file,
\* with the status "Waiting for peer...".
C15_RestartAfterPeerLeft ==
    /\ [][(PeerCanLeave /\ PeerLeaves) => RestartScheduled']_vars
    /\ [][RestartTimerFires =>
              /\ peerConnection' /\ connectionState' = "new"
              /\ channelState' = "connecting"
              /\ isInitiator'
              /\ clientRoomId' = lifecycle.restartTimer[1].roomId
              /\ pendingFile' = lifecycle.restartTimer[1].file
              /\ clientRoomId' = clientRoomId
              /\ pendingFile' = pendingFile
              /\ status' = "Waiting for peer..."
              /\ lifecycle'.restartTimer = NoTimer
              /\ ~lifecycle'.restartingForPeer]_vars
    /\ (lifecycle.restartTimer # NoTimer) ~> (lifecycle.restartTimer = NoTimer)

\* The peer has left a sender that was connected, and the restart is set.
C15_Witness ==
    /\ PeerCanLeave
    /\ connectionState = "failed"
    /\ RestartScheduled
    /\ lifecycle.restartingForPeer

\* The restart timers among the timeouts ts.
RestartTimers(ts) == Cardinality({i \in DOMAIN ts : ts[i].kind = "restart"})

\* C29: at most one restart timer is set at a time; and while
\* lifecycle.restartingForPeer is set, the state failed and the close of the
\* data channel set no further restart timer, leave the one that is set as
\* it is, and show no error.
C29_OneRestartAtATime ==
    /\ [](RestartTimers(timers) <= 1)
    /\ [][(lifecycle.restartingForPeer /\ PeerLeaves) =>
              /\ RestartTimers(timers') = RestartTimers(timers)
              /\ lifecycle'.restartTimer = lifecycle.restartTimer
              /\ lifecycle'.restartingForPeer
              /\ errorShown' = ""]_vars

\* A restart is pending, and since it was set the connection has failed and
\* the channel has closed: one of the two events came during the restart.
C29_Witness ==
    /\ lifecycle.restartingForPeer
    /\ RestartTimers(timers) = 1
    /\ connectionState = "failed"
    /\ channelState = "closed"
    /\ errorShown = ""

\* C27: a timeout that was set for a connection that has been reset since
\* (the open timeout of its data channel, the restart timer; the disconnect
\* timer is cleared by the reset itself) shows no error and makes no new peer
\* connection when it fires.
C27_StaleTimerHasNoEffect ==
    [][\A i \in DOMAIN timers :
          (timers[i].stale /\ (OpenTimeoutFires(i) \/ RestartTimerFiresAt(i))) =>
              /\ errorShown' = ""
              /\ peerConnection' = peerConnection
              /\ connectionState' = connectionState]_vars

\* The data channel is open and the send loop has not reached the end of the
\* file.
TransferInProgress ==
    /\ channelState = "open"
    /\ sendState.file
    /\ sendState.offset < Len(file)
    /\ ~lifecycle.transferComplete

\* C28: when the signaling socket connects again while the data channel is
\* open and the transfer is in progress, the peer connection and the data
\* channel stay as they are and the transfer is not started again.
C28_SocketReconnectKeepsTransfer ==
    [][(TransferInProgress /\ SocketConnects) =>
          /\ channelState' = "open"
          /\ connectionState' = connectionState
          /\ UNCHANGED <<peerConnection, lifecycle, sendState, loop, channel>>]_vars

\* A step appends a chunk frame to the buffer of the data channel.
ChunkFrameSent ==
    /\ Len(channel') = Len(channel) + 1
    /\ channel'[Len(channel')].type = "binary"

\* C26: one call of continueSendFile at a time sends on the data channel: a
\* call that a later call has followed, on this channel or across a
\* restart of the connection, sends nothing and leaves the offset alone, and
\* every chunk frame carries the slice of the file from the offset before
\* the send to the offset after it.
C26_OneSendLoopPerChannel ==
    /\ [][\A i \in DOMAIN others :
             EarlierSendChunk(i) =>
                 /\ channel' = channel
                 /\ sendState'.offset = sendState.offset]_vars
    /\ [][ChunkFrameSent =>
             /\ sendState'.offset > sendState.offset
             /\ sendState'.offset <= Len(file)
             /\ channel'[Len(channel')].bytes =
                  chunkWithCrc(SubSeq(file, sendState.offset + 1,
                                      sendState'.offset))]_vars

\* The file read of a call of continueSendFile resolves, the last call or an
\* earlier one.
ReadResolves == SendChunk \/ \E i \in DOMAIN others : EarlierSendChunk(i)

\* The yield of a call of continueSendFile is over.
YieldEnds == YieldDone \/ \E i \in DOMAIN others : EarlierYieldDone(i)

\* The calls of continueSendFile that have not ended.
SuspendedCalls ==
    (IF loop.pc \in Suspended THEN 1 ELSE 0) + Len(others)

\* C30: cleanup releases the file of the transfer; and once the manager's
\* data channel is closed or dropped, the send loop sends no frame, throws
\* nothing, shows no error and ends with its next iteration: a call that
\* wakes from its file read ends, and a call that wakes from its yield ends
\* or awaits the read of that iteration.
C30_SendLoopStopsAfterClose ==
    /\ [][(Cleanup /\ sendState.file) => ~sendState'.file]_vars
    /\ [][(ReadResolves /\ channelState \in {"none", "closed"}) =>
             /\ channel' = channel
             /\ SuspendedCalls' = SuspendedCalls - 1
             /\ loop'.pc # "threw"
             /\ errorShown' = ""]_vars
    /\ [][(YieldEnds /\ channelState \in {"none", "closed"}) =>
             /\ channel' = channel
             /\ SuspendedCalls' <= SuspendedCalls
             /\ loop'.pc # "threw"
             /\ errorShown' = ""]_vars


\* C31: on the sender, a peer-joined that names the peer of the last one
\* while the offer guard is set for the room schedules no createOffer, and a
\* peer-joined that names another peer clears the guard and schedules one
\* createOffer, for which the guard is set again.
C31_OfferOncePerPeer ==
    [][\A p \in PeerIds :
          (PeerJoinedFrom(p) /\ isInitiator) =>
              IF p = lastJoinedPeerId
              THEN offerCreatedForRoom = clientRoomId =>
                       /\ offerTimers' = offerTimers
                       /\ offerCreatedForRoom' = clientRoomId
              ELSE /\ offerTimers' = offerTimers + 1
                   /\ offerCreatedForRoom' = clientRoomId
                   /\ lastJoinedPeerId' = p]_vars


\* C32: the disconnect timer is started only by a change to disconnected
\* with the tab visible, the close not intentional and the transfer not
\* complete; while it is set the connection is not connected, a change to
\* connected clears it; and the error of a peer gone offline is shown only
\* by the timer that fires while the state is disconnected.
C32_DisconnectTimer ==
    /\ [](lifecycle.disconnectTimer =>
              connectionState \in {"disconnected", "failed"})
    /\ [][(~lifecycle.disconnectTimer /\ lifecycle'.disconnectTimer) =>
              /\ ConnectionStateChanges("disconnected", FALSE)
              /\ ~lifecycle.intentionalClose
              /\ ~lifecycle.transferComplete]_vars
    /\ [][(\E hidden \in BOOLEAN : ConnectionStateChanges("connected", hidden))
              => ~lifecycle'.disconnectTimer]_vars
    /\ [][errorShown' = "Connection disconnected" =>
              /\ DisconnectTimerFires
              /\ connectionState = "disconnected"
              /\ connectionState' = "disconnected"]_vars

\* The timer has run out on a connection that was still disconnected.
C32_Witness ==
    /\ errorShown = "Connection disconnected"
    /\ connectionState = "disconnected"
    /\ ~lifecycle.disconnectTimer
    /\ lifecycle.everConnected


\* The texts the open timeout shows as a failure.
OpenTimeoutErrors ==
    {"Could not connect to peer",
     "Data channel opened but transfer preparation failed"}

\* C33: the open timeout of a data channel that has not opened shows a
\* failure only on a receiver, or on a sender that has seen a peer join
\* since its connection was set up; the flag hasRemotePeer is set by the
\* peer-joined event alone, and a sender without it gets the status
\* 'Waiting for peer to join...' and no error.
C33_OpenTimeoutFailure ==
    /\ [][\A i \in DOMAIN timers :
             OpenTimeoutFires(i) =>
                 /\ errorShown' \in OpenTimeoutErrors =>
                        ~isInitiator \/ lifecycle.hasRemotePeer
                 /\ (isInitiator /\ ~lifecycle.hasRemotePeer) =>
                        /\ errorShown' = ""
                        /\ status' = "Waiting for peer to join..."]_vars
    /\ [][(~lifecycle.hasRemotePeer /\ lifecycle'.hasRemotePeer) =>
             PeerJoined /\ isInitiator]_vars
    /\ [][errorShown' \in OpenTimeoutErrors =>
             \E i \in DOMAIN timers : OpenTimeoutFires(i)]_vars

\* The timeout of a sender that no peer has joined has fired.
C33_Witness ==
    /\ isInitiator
    /\ ~lifecycle.hasRemotePeer
    /\ status = "Waiting for peer to join..."
    /\ channelState = "connecting"
    /\ errorShown = ""


\* C34: in every call of continueSendFile the batch size is within 1..20
\* and the yield time within 10..200 ms, and so are the values a completed
\* transfer leaves in sendState for the next one.
C34_BatchAndYieldInRange ==
    /\ loop.pc # "idle" =>
           /\ loop.currentBatchSize \in 1..20
           /\ loop.yieldTimeMs \in 10..200
    /\ sendState.batchSize # 0 =>
           /\ sendState.batchSize \in 1..20
           /\ sendState.yieldTimeMs \in 10..200

\* A transfer has ended with the batch size at 20 and the yield time at
\* 10 ms, and the loop of a later one has slowed down to batch size 1 with
\* the yield time at 200 ms.
C34_Witness ==
    /\ loop.pc = "head"
    /\ loop.currentBatchSize = 1
    /\ loop.yieldTimeMs = 200
    /\ sendState.batchSize = 20
    /\ sendState.yieldTimeMs = 10


\* C35: the entry of a socket counts the events accepted since its window
\* was opened, which are at most RATE_LIMIT_MAX; an accepted event adds one
\* to the count or opens a window with count 1, a rejected event leaves the
\* entry as it is, and an offer or an answer leaves the entry as it is
\* whatever the entry holds.
C35_AtMostRateMaxPerWindow ==
    /\ [](rlLimit.has =>
              /\ rlLimit.count \in 1..RATE_LIMIT_MAX
              /\ rlNow <= rlLimit.resetTime =>
                     AcceptedIn(rlLimit.resetTime - RATE_LIMIT_WINDOW, rlNow)
                         = rlLimit.count)
    /\ [][rlLast' = "accepted" =>
              IF rlLimit.has /\ rlNow <= rlLimit.resetTime
              THEN /\ rlLimit.count < RATE_LIMIT_MAX
                   /\ rlLimit' = [rlLimit EXCEPT !.count = @ + 1]
              ELSE rlLimit' = [has |-> TRUE, count |-> 1,
                               resetTime |-> rlNow + RATE_LIMIT_WINDOW]]_vars
    /\ [][rlLast' = "rejected" =>
              /\ rlLimit.count = RATE_LIMIT_MAX
              /\ rlNow <= rlLimit.resetTime
              /\ UNCHANGED <<rlLimit, rlAccepted>>]_vars
    /\ [][rlLast' = "exempt" => UNCHANGED <<rlLimit, rlAccepted>>]_vars
    /\ [](ENABLED ExemptEvent)

\* The window has taken RATE_LIMIT_MAX events and, still open, has turned
\* the next one away.
C35_Witness ==
    /\ rlLimit.has
    /\ rlNow <= rlLimit.resetTime
    /\ rlLimit.count = RATE_LIMIT_MAX
    /\ AcceptedIn(rlLimit.resetTime - RATE_LIMIT_WINDOW, rlNow) = RATE_LIMIT_MAX
    /\ rlLast = "rejected"


\* C36: once the save-file stream of a transfer is open, every chunk payload
\* the receiver has accepted for that transfer is in the sink, in the order
\* of arrival, and none is in the in-memory map: the sink holds the first
\* receivedSize bytes of the file, also when chunks arrived while
\* initializeReceiver was awaiting the picker.
C36_StreamedChunksAllInSink ==
    receiveState.streamWriter # "null" =>
        /\ receiveState.chunks = << >>
        /\ receiveState.receivedSize <= Len(file)
        /\ sink = SubSeq(file, 1, receiveState.receivedSize)


\* C37: every pending join names a room of the registry: when a room goes,
\* with its last peer or in the sweep, the requests made to it go too.
C37_PendingJoinHasRoom ==
    \A p \in DOMAIN pendingJoinRequests : HasRoom(pendingJoinRequests[p])


\* C38: the candidates are passed to addIceCandidate in the order in which
\* they arrived, and none is passed directly while earlier ones wait in the
\* queue.
C38_AppliedInArrivalOrder ==
    /\ \A i, j \in DOMAIN applied : i < j => applied[i] < applied[j]
    /\ \A i \in DOMAIN applied, j \in DOMAIN remoteCandidateQueue :
           applied[i] < remoteCandidateQueue[j]


\* C39: ICE candidates queued for one peer connection are never applied to a
\* later one: whenever setupPeerConnection makes a new connection, the first
\* of the page or another, the queue of remote candidates is empty.
C39_QueueEmptyAtSetup ==
    [][(SetupPeerConnection \/ \E i \in SetupInputs : AppSetup(i[1], i[2], i[3]))
          => remoteCandidateQueue' = << >>]_vars

=============================================================================
